---------------------------- MODULE Spec2Model ----------------------------
(***************************************************************************)
(* Model of the query / aggregation layer of the KB library-statistics MCP *)
(* server (kb-api.ts): the term-dictionary cache, the observation filters  *)
(* built on one upstream fetch, the sequential batch operations and the    *)
(* descriptive statistics.                                                 *)
(*                                                                         *)
(* Three specifications share the module's variables:                      *)
(*   StatSpec  - calculateStatistics applied to bounded inputs             *)
(*   TermSpec  - loadTermsFromFile and the term operations, interleaved    *)
(*   Spec      - the observation operations against the upstream API       *)
(***************************************************************************)
EXTENDS Integers, Sequences, FiniteSets, TLC

VARIABLES
    values,        \* StatSpec: the argument of calculateStatistics
    statistics,    \* StatSpec: what calculateStatistics produced
    termsCache,    \* TermSpec: the module-level cache (kb-api.ts, let termsCache)
    termsFile,     \* TermSpec: what the backing file holds right now
    readCount,     \* TermSpec: calls of readFile so far
    cacheWrites,   \* TermSpec: assignments to termsCache so far
    readSucceeded, \* TermSpec: some load has completed with a successful read
    calls,         \* TermSpec: the tool invocations, each with its position
    upstream,      \* Spec: the observations the upstream API holds
    call,          \* Spec: the operation invoked, its arguments and its position
    inFlight,      \* Spec: upstream requests issued and not yet answered
    requests       \* Spec: the parameters of every upstream request, in issue order

vars == <<values, statistics, termsCache, termsFile, readCount, cacheWrites,
          readSucceeded, calls, upstream, call, inFlight, requests>>

statVars == <<values, statistics>>
termVars == <<termsCache, termsFile, readCount, cacheWrites, readSucceeded, calls>>
obsVars == <<upstream, call, inFlight, requests>>

(***************************************************************************)
(* Generic helpers on sequences.                                           *)
(***************************************************************************)
Min2(a, b) == IF a <= b THEN a ELSE b

Max2(a, b) == IF a >= b THEN a ELSE b

Range(s) == {s[i] : i \in 1..Len(s)}

\* Array.prototype.slice(0, n)
Take(s, n) == SubSeq(s, 1, Min2(n, Len(s)))

\* all sequences over S of length 0..n
SeqsUpTo(S, n) == UNION {[1..k -> S] : k \in 0..n}

(***************************************************************************)
(* JavaScript numbers.  A number is an IEEE-754 binary floating-point      *)
(* value m * 2^e kept in canonical form (m odd, or m = 0 and e = 0); every *)
(* arithmetic result is rounded to the nearest representable value, ties   *)
(* to even.  The mantissa holds MantissaBits bits instead of binary64's 53 *)
(* so that rounding is within reach of small inputs; the exponent is not   *)
(* bounded (no overflow, no subnormals).                                   *)
(***************************************************************************)
MantissaBits == 4

Zero == [m |-> 0, e |-> 0]

Abs(n) == IF n < 0 THEN -n ELSE n

Sgn(n) == IF n < 0 THEN -1 ELSE IF n = 0 THEN 0 ELSE 1

RECURSIVE Canon(_, _)
Canon(m, e) ==
    IF m = 0 THEN Zero
    ELSE IF m % 2 = 0 THEN Canon(m \div 2, e + 1)
    ELSE [m |-> m, e |-> e]

\* <<A', B', e'>> with A'/B' * 2^e' = A/B * 2^e and
\* 2^(MantissaBits-1) <= A'/B' < 2^MantissaBits   (A > 0, B > 0)
RECURSIVE Normalize(_, _, _)
Normalize(A, B, e) ==
    IF A < B * 2^(MantissaBits - 1) THEN Normalize(2 * A, B, e - 1)
    ELSE IF A >= B * 2^MantissaBits THEN Normalize(A, 2 * B, e + 1)
    ELSE <<A, B, e>>

\* A/B rounded to an integer, ties to even
RoundHalfEven(A, B) ==
    LET q == A \div B
        r == A % B
    IN  IF 2 * r > B \/ (2 * r = B /\ q % 2 = 1) THEN q + 1 ELSE q

\* the number nearest to s * (A/B) * 2^e
RoundRatio(s, A, B, e) ==
    IF A = 0 THEN Zero
    ELSE LET n == Normalize(A, B, e)
         IN  Canon(s * RoundHalfEven(n[1], n[2]), n[3])

FromInt(n) == RoundRatio(Sgn(n), Abs(n), 1, 0)

Neg(x) == [m |-> -x.m, e |-> x.e]

\* x + y
FAdd(x, y) ==
    LET k == Min2(x.e, y.e)
        M == x.m * 2^(x.e - k) + y.m * 2^(y.e - k)
    IN  RoundRatio(Sgn(M), Abs(M), 1, k)

\* x - y
FSub(x, y) == FAdd(x, Neg(y))

\* x / y  (y is not 0 wherever the code divides)
FDiv(x, y) == RoundRatio(Sgn(x.m) * Sgn(y.m), Abs(x.m), Abs(y.m), x.e - y.e)

\* x < y, x <= y
FLt(x, y) ==
    LET k == Min2(x.e, y.e)
    IN  x.m * 2^(x.e - k) < y.m * 2^(y.e - k)

FLe(x, y) == x = y \/ FLt(x, y)

\* x * y
FMul(x, y) == RoundRatio(Sgn(x.m) * Sgn(y.m), Abs(x.m) * Abs(y.m), 1, x.e + y.e)

(***************************************************************************)
(* JavaScript values as they occur in observations and results.            *)
(***************************************************************************)
Num(x) == [kind |-> "number", num |-> x]

Null == [kind |-> "null", num |-> Zero]

Undefined == [kind |-> "undefined", num |-> Zero]

Text == [kind |-> "string", num |-> Zero]

(***************************************************************************)
(* calculateStatistics (kb-api.ts).                                        *)
(***************************************************************************)
\* values.reduce((a, b) => a + b, 0)
RECURSIVE SumFrom(_, _)
SumFrom(acc, vs) ==
    IF vs = <<>> THEN acc ELSE SumFrom(FAdd(acc, Head(vs)), Tail(vs))

\* [...values].sort((a, b) => a - b)
RECURSIVE InsertAscending(_, _)
InsertAscending(x, s) ==
    IF s = <<>> THEN <<x>>
    ELSE IF FLt(x, Head(s)) THEN <<x>> \o s
    ELSE <<Head(s)>> \o InsertAscending(x, Tail(s))

\* mutant: the copy of the values is not sorted
SortAscendingSkipped(vs) == vs

RECURSIVE SortAscending(_)
SortAscending(vs) ==
    IF vs = <<>> THEN <<>>
    ELSE InsertAscending(vs[Len(vs)], SortAscending(SubSeq(vs, 1, Len(vs) - 1)))

\* the keys of the frequency Map, in insertion order: the order in which
\* the values first occur in the input
RECURSIVE FrequencyKeys(_, _)
FrequencyKeys(seen, vs) ==
    IF vs = <<>> THEN seen
    ELSE IF Head(vs) \in Range(seen) THEN FrequencyKeys(seen, Tail(vs))
    ELSE FrequencyKeys(Append(seen, Head(vs)), Tail(vs))

\* frequency.get(v)
Frequency(vs, v) == Cardinality({i \in 1..Len(vs) : vs[i] = v})

\* Math.max(...frequency.values())
MaxFreq(vs) ==
    CHOOSE f \in {Frequency(vs, v) : v \in Range(vs)} :
        \A v \in Range(vs) : Frequency(vs, v) <= f

\* Array.from(frequency.entries()).filter(freq === maxFreq).map(val)
Modes(vs) ==
    LET IsMode(v) == Frequency(vs, v) = MaxFreq(vs)
    IN  SelectSeq(FrequencyKeys(<<>>, vs), IsMode)

\* modes.length === count ? null : modes[0]
Mode(vs) == IF Len(Modes(vs)) = Len(vs) THEN Null ELSE Num(Modes(vs)[1])

\* count % 2 === 0 ? (sorted[count/2 - 1] + sorted[count/2]) / 2
\*                 : sorted[Math.floor(count / 2)]        (0-indexed)
Median(sorted) ==
    LET count == Len(sorted)
    IN  IF count % 2 = 0
        THEN FDiv(FAdd(sorted[count \div 2], sorted[count \div 2 + 1]), FromInt(2))
        ELSE sorted[count \div 2 + 1]

\* Math.floor(count * 0.25), Math.floor(count * 0.75): count is an array
\* length and 0.25, 0.75 are dyadic, so the products are exact in binary64
PercentileIndex25(count) == count \div 4

\* mutant: the rank taken over count - 1, as interpolating methods do
PercentileIndex75Exclusive(count) == (3 * (count - 1)) \div 4

PercentileIndex75(count) == (3 * count) \div 4

\* values.reduce((acc, val) => acc + Math.pow(val - mean, 2), 0) / count
RECURSIVE SquaresFrom(_, _, _)
SquaresFrom(acc, vs, mean) ==
    IF vs = <<>> THEN acc
    ELSE SquaresFrom(FAdd(acc, FMul(FSub(Head(vs), mean), FSub(Head(vs), mean))),
                     Tail(vs), mean)

\* the record computed from a non-empty input (standardDeviation, the square
\* root of variance, is not carried)
StatisticsOf(vs) ==
    LET sorted == SortAscending(vs)
        count == Len(vs)
        sum == SumFrom(Zero, vs)
        mean == FDiv(sum, FromInt(count))
    IN  [status |-> "returned",
         count |-> count,
         sum |-> sum,
         mean |-> mean,
         median |-> Median(sorted),
         mode |-> Mode(vs),
         min |-> sorted[1],
         max |-> sorted[count],
         range |-> FSub(sorted[count], sorted[1]),
         variance |-> FDiv(SquaresFrom(Zero, vs, mean), FromInt(count)),
         percentile25 |-> sorted[PercentileIndex25(count) + 1],
         percentile75 |-> sorted[PercentileIndex75(count) + 1]]

\* mutant: an empty input yields a zeroed record instead of an Error
calculateStatisticsZeroed(vs) ==
    IF Len(vs) = 0
    THEN [status |-> "returned", count |-> 0, sum |-> Zero, mean |-> Zero,
          median |-> Zero, mode |-> Null, min |-> Zero, max |-> Zero,
          range |-> Zero, variance |-> Zero,
          percentile25 |-> Zero, percentile75 |-> Zero]
    ELSE StatisticsOf(vs)

\* the function: a thrown Error, or the statistics record
calculateStatistics(vs) ==
    IF Len(vs) = 0
    THEN [status |-> "thrown",
          message |-> "Cannot calculate statistics for empty array"]
    ELSE StatisticsOf(vs)

(***************************************************************************)
(* StatSpec: calculateStatistics applied once to an input drawn from the   *)
(* bounded set StatInputs.                                                 *)
(***************************************************************************)
MaxValues == 5

\* the numbers the inputs are built from
NumVals == {FromInt(1), FromInt(2), FromInt(3), FromInt(15)}

\* the values 1..10, ascending and descending
OneToTen == [i \in 1..10 |-> FromInt(i)]

TenToOne == [i \in 1..10 |-> FromInt(11 - i)]

StatInputs == SeqsUpTo(NumVals, MaxValues) \cup {OneToTen, TenToOne}

NotCalled == [status |-> "notCalled"]

(***************************************************************************)
(* Strings are sequences of one-character strings.                         *)
(***************************************************************************)
Digits == <<"0", "1", "2", "3", "4", "5", "6", "7", "8", "9">>

UpperLetters == <<"A", "B", "C", "D", "E", "F", "G", "H", "I", "J", "K", "L", "M",
                  "N", "O", "P", "Q", "R", "S", "T", "U", "V", "W", "X", "Y", "Z">>

LowerLetters == <<"a", "b", "c", "d", "e", "f", "g", "h", "i", "j", "k", "l", "m",
                  "n", "o", "p", "q", "r", "s", "t", "u", "v", "w", "x", "y", "z">>

\* String(n) of a non-negative integer
RECURSIVE DecimalString(_)
DecimalString(n) ==
    IF n < 10 THEN <<Digits[n + 1]>>
    ELSE DecimalString(n \div 10) \o <<Digits[(n % 10) + 1]>>

IsUpper(c) == c \in Range(UpperLetters)

IsLetter(c) == c \in Range(UpperLetters) \cup Range(LowerLetters)

\* String.prototype.toLowerCase
LowerChar(c) ==
    IF IsUpper(c)
    THEN LowerLetters[CHOOSE i \in 1..Len(UpperLetters) : UpperLetters[i] = c]
    ELSE c

toLowerCase(str) == [i \in 1..Len(str) |-> LowerChar(str[i])]

\* String.prototype.startsWith
startsWith(str, prefix) ==
    Len(prefix) <= Len(str) /\ SubSeq(str, 1, Len(prefix)) = prefix

\* String.prototype.includes
includes(str, part) ==
    \E i \in 0..(Len(str) - Len(part)) : SubSeq(str, i + 1, i + Len(part)) = part

(***************************************************************************)
(* The term dictionary (kb-api.ts: termsCache, loadTermsFromFile and the   *)
(* searches built on it).                                                  *)
(***************************************************************************)
Aktiv01 == [id |-> <<"A", "k", "t", "i", "v", "0", "1">>,
            label |-> <<"l", "a", "n">>, comment |-> <<>>]

Besok12 == [id |-> <<"B", "e", "s", "o", "k", "1", "2">>,
            label |-> <<"b", "e", "s", "o", "k">>, comment |-> <<"A", "k", "t">>]

Folk54 == [id |-> <<"F", "o", "l", "k", "5", "4">>,
           label |-> <<>>, comment |-> <<"l", "a", "n">>]

Aktiv02 == [id |-> <<"A", "k", "t", "i", "v", "0", "2">>,
            label |-> <<>>, comment |-> <<>>]

Beso1 == [id |-> <<"B", "e", "s", "o", "1">>,
          label |-> <<>>, comment |-> <<>>]

besok3 == [id |-> <<"b", "e", "s", "o", "k", "3">>,
           label |-> <<>>, comment |-> <<>>]

\* what the backing file can hold: nothing readable, text that is not JSON,
\* a JSON document without a terms array, or a terms array
FileMissing == [state |-> "missing", terms |-> <<>>]

FileCorrupt == [state |-> "corrupt", terms |-> <<>>]

FileNoTerms == [state |-> "noTerms", terms |-> <<>>]

FileOf(ts) == [state |-> "json", terms |-> ts]

\* a dictionary out of order, with a repeated prefix, an identifier that
\* stops short of "besok" and one in lower case
MixedTerms == <<Besok12, Aktiv02, Beso1, Aktiv01, besok3>>

TermFiles ==
    {FileMissing, FileCorrupt, FileNoTerms,
     FileOf(<<Folk54, Aktiv01, Besok12>>), FileOf(MixedTerms)}

\* termsCache: null, or the cached array
NullCache == [loaded |-> FALSE, terms |-> <<>>]

Cached(ts) == [loaded |-> TRUE, terms |-> ts]

\* terms.filter(term => term['@id'].toLowerCase().startsWith(prefix))
\* mutant: the identifier is compared as written
searchTermsByCategoryExact(terms, categoryPrefix) ==
    LET Matches(term) == startsWith(term.id, categoryPrefix)
    IN  SelectSeq(terms, Matches)

searchTermsByCategory(terms, categoryPrefix) ==
    LET Matches(term) == startsWith(toLowerCase(term.id), toLowerCase(categoryPrefix))
    IN  SelectSeq(terms, Matches)

\* terms.filter(id, label or comment contains the keyword, case-insensitively)
searchTermsByKeyword(terms, keyword) ==
    LET searchTerm == toLowerCase(keyword)
        Matches(term) ==
            \/ includes(toLowerCase(term.id), searchTerm)
            \/ includes(toLowerCase(term.label), searchTerm)
            \/ includes(toLowerCase(term.comment), searchTerm)
    IN  SelectSeq(terms, Matches)

\* terms.find(term => term['@id'] === termId) || null : the terms found
\* first, as a sequence of at most one element
getTermDetails(terms, termId) ==
    LET Matches(term) == term.id = termId
    IN  Take(SelectSeq(terms, Matches), 1)

\* term['@id'].match(/^([A-Za-z]+)/): the leading run of letters, empty
\* when the identifier does not start with a letter (no match)
RECURSIVE LeadingLetters(_)
LeadingLetters(str) ==
    IF str = <<>> \/ ~IsLetter(Head(str)) THEN <<>>
    ELSE <<Head(str)>> \o LeadingLetters(Tail(str))

\* categories.get(prefix) of a Map kept as a sequence of <<key, value>>
MapGetOr(map, key, default) ==
    IF \E i \in 1..Len(map) : map[i][1] = key
    THEN map[CHOOSE i \in 1..Len(map) : map[i][1] = key][2]
    ELSE default

\* Map.prototype.set: an existing key keeps its place
MapSet(map, key, val) ==
    IF \E i \in 1..Len(map) : map[i][1] = key
    THEN [i \in 1..Len(map) |-> IF map[i][1] = key THEN <<key, val>> ELSE map[i]]
    ELSE Append(map, <<key, val>>)

\* the Map of getTermCategories: prefix -> the terms with that prefix
RECURSIVE CategoriesFrom(_, _)
CategoriesFrom(categories, terms) ==
    IF terms = <<>> THEN categories
    ELSE LET prefix == LeadingLetters(Head(terms).id)
         IN  IF prefix = <<>> THEN CategoriesFrom(categories, Tail(terms))
             ELSE CategoriesFrom(
                      MapSet(categories, prefix,
                             Append(MapGetOr(categories, prefix, <<>>), Head(terms))),
                      Tail(terms))

getTermCategories(terms) == CategoriesFrom(<<>>, terms)

\* the UTF-16 code units order digits before upper-case before lower-case
CharOrder == Digits \o UpperLetters \o LowerLetters

CharCode(c) == CHOOSE i \in 1..Len(CharOrder) : CharOrder[i] = c

\* the default comparison of Array.prototype.sort: by code units
RECURSIVE StringLess(_, _)
StringLess(a, b) ==
    IF b = <<>> THEN FALSE
    ELSE IF a = <<>> THEN TRUE
    ELSE IF Head(a) = Head(b) THEN StringLess(Tail(a), Tail(b))
    ELSE CharCode(Head(a)) < CharCode(Head(b))

RECURSIVE InsertString(_, _)
InsertString(x, s) ==
    IF s = <<>> THEN <<x>>
    ELSE IF StringLess(x, Head(s)) THEN <<x>> \o s
    ELSE <<Head(s)>> \o InsertString(x, Tail(s))

RECURSIVE SortStrings(_)
SortStrings(s) ==
    IF s = <<>> THEN <<>>
    ELSE InsertString(s[Len(s)], SortStrings(SubSeq(s, 1, Len(s) - 1)))

\* mutant: the keys are returned in the order of the Map
listTermCategoriesUnsorted(terms) ==
    LET categories == getTermCategories(terms)
    IN  [i \in 1..Len(categories) |-> categories[i][1]]

\* Array.from(categories.keys()).sort()
listTermCategories(terms) ==
    LET categories == getTermCategories(terms)
    IN  SortStrings([i \in 1..Len(categories) |-> categories[i][1]])

\* the operations a tool invocation performs on the dictionary; an empty
\* arg of a search or a lookup is a required parameter left out
TermOps ==
    {[op |-> "loadTermsFromFile", arg |-> <<>>],
     [op |-> "searchTermsByCategory", arg |-> <<"b", "e", "s", "o", "k">>],
     [op |-> "searchTermsByKeyword", arg |-> <<"a", "k", "t">>],
     [op |-> "getTermDetails", arg |-> <<"F", "o", "l", "k", "5", "4">>],
     [op |-> "getTermCategories", arg |-> <<>>],
     [op |-> "listTermCategories", arg |-> <<>>],
     [op |-> "searchTermsByCategory", arg |-> <<>>],
     [op |-> "searchTermsByKeyword", arg |-> <<>>],
     [op |-> "getTermDetails", arg |-> <<>>]}

\* if (!category) / if (!keyword) / if (!termId) of the term tools
TermArgMissing(op) ==
    /\ op.op \in {"searchTermsByCategory", "searchTermsByKeyword", "getTermDetails"}
    /\ op.arg = <<>>

\* the message of the McpError the term tool throws (in ASCII)
TermArgMessage(op) ==
    CASE op.op = "searchTermsByCategory" -> "Parameter category ar obligatorisk"
      [] op.op = "searchTermsByKeyword" -> "Parameter keyword ar obligatorisk"
      [] op.op = "getTermDetails" -> "Parameter term_id ar obligatorisk"

\* what the operation makes of the loaded terms
TermResult(op, terms) ==
    CASE op.op = "loadTermsFromFile" -> terms
      [] op.op = "searchTermsByCategory" -> searchTermsByCategory(terms, op.arg)
      [] op.op = "searchTermsByKeyword" -> searchTermsByKeyword(terms, op.arg)
      [] op.op = "getTermDetails" -> getTermDetails(terms, op.arg)
      [] op.op = "getTermCategories" -> getTermCategories(terms)
      [] op.op = "listTermCategories" -> listTermCategories(terms)

\* mutant: the category search filters the array it was given in place
TermsLeftFiltered(op, terms) ==
    IF op.op = "searchTermsByCategory" THEN searchTermsByCategory(terms, op.arg)
    ELSE terms

\* what the operation leaves of the array loadTermsFromFile returned to it,
\* which is the cached array itself: filter, find and forEach only read
\* it, and the sort of listTermCategories sorts a fresh array of the keys
TermsLeft(op, terms) == terms

MaxCalls == 2

CallIds == 1..MaxCalls

\* what the handler answers: nothing yet, a text result, or an McpError
NoOutcome == [kind |-> "none", code |-> "", message |-> ""]

TextResult == [kind |-> "text", code |-> "", message |-> ""]

McpError(code, message) == [kind |-> "error", code |-> code, message |-> message]

IdleCall == [pc |-> "idle", op |-> [op |-> "none", arg |-> <<>>],
             terms |-> <<>>, result |-> <<>>, outcome |-> NoOutcome]

\* the state of the parts a specification does not use
StatIdle == values = <<>> /\ statistics = NotCalled

TermIdle ==
    /\ termsCache = NullCache
    /\ termsFile = FileMissing
    /\ readCount = 0
    /\ cacheWrites = 0
    /\ readSucceeded = FALSE
    /\ calls = [c \in CallIds |-> IdleCall]

\* the arguments of an observation operation; those it does not take are
\* left empty
Args(libraryId, year, term, targetGroup, limit, elements) ==
    [libraryId |-> libraryId, year |-> year, term |-> term,
     targetGroup |-> targetGroup, limit |-> limit, elements |-> elements]

\* the arguments of the operations that take two years: year1 and year2 of
\* compareLibraryYears, startYear and endYear of getTermTrend
YearArgs(libraryId, year, year2, term) ==
    [libraryId |-> libraryId, year |-> year, term |-> term,
     targetGroup |-> "", limit |-> 0, elements |-> <<>>, year2 |-> year2]

\* the HTTP response of the last answered fetch; status 0: none received
NoResponse == [status |-> 0, statusText |-> ""]

NoCall == [pc |-> "idle", op |-> "none",
           args |-> Args(<<>>, 0, <<>>, "", 0, <<>>),
           windows |-> <<>>, result |-> <<>>, error |-> "",
           response |-> NoResponse, termDetails |-> <<>>,
           outcome |-> NoOutcome]

ObsIdle == upstream = <<>> /\ call = NoCall /\ inFlight = 0 /\ requests = <<>>

\* mutant: the cache is not consulted; every call reads the file
CacheHitNever(cache) == FALSE

\* if (termsCache !== null) return termsCache;
CacheHit(cache) == cache.loaded

\* A tool invocation: the handler throws InvalidParams when the required
\* parameter is missing; otherwise it enters loadTermsFromFile and runs to
\* the first await: it returns the cached array, or calls readFile and
\* suspends.
LoadEnter(c, op) ==
    /\ calls[c].pc = "idle"
    /\ IF TermArgMissing(op)
       THEN /\ calls' = [calls EXCEPT ![c] =
                    [pc |-> "done", op |-> op, terms |-> <<>>, result |-> <<>>,
                     outcome |-> McpError("InvalidParams", TermArgMessage(op))]]
            /\ UNCHANGED <<readCount, termsCache>>
       ELSE IF CacheHit(termsCache)
       THEN /\ calls' = [calls EXCEPT ![c] =
                    [pc |-> "done", op |-> op, terms |-> termsCache.terms,
                     result |-> TermResult(op, termsCache.terms),
                     outcome |-> TextResult]]
            /\ termsCache' = [termsCache EXCEPT !.terms = TermsLeft(op, @)]
            /\ UNCHANGED readCount
       ELSE /\ calls' = [calls EXCEPT ![c] =
                    [pc |-> "reading", op |-> op, terms |-> <<>>, result |-> <<>>,
                     outcome |-> NoOutcome]]
            /\ readCount' = readCount + 1
            /\ UNCHANGED termsCache
    /\ UNCHANGED <<termsFile, cacheWrites, readSucceeded>>
    /\ UNCHANGED <<statVars, obsVars>>

\* mutant: a failed load falls back to a built-in term
LoadedTermsFallback(f) == IF f.state = "json" THEN f.terms ELSE <<Aktiv01>>

\* what the try block or the catch block assigns to termsCache and returns
\* when readFile settles on file content f
LoadedTerms(f) == IF f.state = "json" THEN f.terms ELSE <<>>

\* readFile settles and the suspended call resumes: JSON.parse, the
\* assignment to termsCache and the return, or the catch block
LoadResume(c) ==
    /\ calls[c].pc = "reading"
    /\ termsCache' = Cached(TermsLeft(calls[c].op, LoadedTerms(termsFile)))
    /\ cacheWrites' = cacheWrites + 1
    /\ readSucceeded' = (readSucceeded \/ termsFile.state # "missing")
    /\ calls' = [calls EXCEPT ![c] =
            [pc |-> "done", op |-> calls[c].op, terms |-> LoadedTerms(termsFile),
             result |-> TermResult(calls[c].op, LoadedTerms(termsFile)),
             outcome |-> TextResult]]
    /\ UNCHANGED <<termsFile, readCount>>
    /\ UNCHANGED <<statVars, obsVars>>

\* the handler has sent its response; the next request can be served
Respond(c) ==
    /\ calls[c].pc = "done"
    /\ calls' = [calls EXCEPT ![c] = IdleCall]
    /\ UNCHANGED <<termsCache, termsFile, readCount, cacheWrites, readSucceeded>>
    /\ UNCHANGED <<statVars, obsVars>>

\* the environment replaces, removes or damages the backing file
ChangeFile(f) ==
    /\ termsFile # f
    /\ termsFile' = f
    /\ UNCHANGED <<termsCache, readCount, cacheWrites, readSucceeded, calls>>
    /\ UNCHANGED <<statVars, obsVars>>

TermInit ==
    /\ termsCache = NullCache
    /\ termsFile \in TermFiles
    /\ readCount = 0
    /\ cacheWrites = 0
    /\ readSucceeded = FALSE
    /\ calls = [c \in CallIds |-> IdleCall]
    /\ StatIdle
    /\ ObsIdle

TermNext ==
    \/ \E c \in CallIds, op \in TermOps : LoadEnter(c, op)
    \/ \E c \in CallIds : LoadResume(c)
    \/ \E c \in CallIds : Respond(c)
    \/ \E f \in TermFiles : ChangeFile(f)

TermSpec == TermInit /\ [][TermNext]_vars

(***************************************************************************)
(* Observations and the upstream API (kb-api.ts: fetchObservations and the *)
(* operations that filter one fetched window).                             *)
(***************************************************************************)
\* obs.library: a string, an object with an optional '@id' and name, or absent
LibString(id) == [kind |-> "string", id |-> id, hasId |-> TRUE, name |-> <<>>]

LibObject(id, name) == [kind |-> "object", id |-> id, hasId |-> TRUE, name |-> name]

LibObjectNoId(name) == [kind |-> "object", id |-> <<>>, hasId |-> FALSE, name |-> name]

NoLibrary == [kind |-> "none", id |-> <<>>, hasId |-> FALSE, name |-> <<>>]

\* sampleYear 0 and targetGroup "" stand for an absent field; both are falsy
Obs(id, term, value, library, sampleYear, targetGroup) ==
    [id |-> id, term |-> term, value |-> value, library |-> library,
     sampleYear |-> sampleYear, targetGroup |-> targetGroup]

K1 == <<"K", "1">>

K12 == <<"K", "1", "2">>

k1 == <<"k", "1">>

Mal == <<"M", "a", "l">>

ObsA == Obs(1, Folk54.id, Num(FromInt(3)), LibString(K1), 2014, "folkbibliotek")

ObsB == Obs(2, Folk54.id, Num(FromInt(1)), LibObject(K12, Mal), 2015, "folkbibliotek")

ObsC == Obs(3, Aktiv01.id, Text, LibObject(k1, <<>>), 2015, "skolbibliotek")

ObsD == Obs(4, Aktiv01.id, Undefined, NoLibrary, 0, "")

ObsE == Obs(5, Folk54.id, Num(FromInt(3)), LibObjectNoId(K1), 2015, "skolbibliotek")

\* a term that drops from 0 to 50, and one whose first value is no number
ObsZ == Obs(6, Besok12.id, Num(Zero), LibString(K1), 2014, "folkbibliotek")

ObsY == Obs(7, Besok12.id, Num(FromInt(50)), LibString(K1), 2015, "folkbibliotek")

ObsT == Obs(8, Aktiv01.id, Text, LibString(K1), 2014, "skolbibliotek")

ObsU == Obs(9, Aktiv01.id, Num(FromInt(2)), LibString(K1), 2015, "skolbibliotek")

\* an observation of a year of three digits
ObsOld == Obs(10, Folk54.id, Num(FromInt(2)), LibString(K1), 999, "folkbibliotek")

\* an observation whose value is null
ObsNull == Obs(30, Folk54.id, Null, LibString(Mal), 2014, "folkbibliotek")

CompareData == <<ObsZ, ObsA, ObsT, ObsY, ObsB, ObsU>>

\* how many observations of one term and year RankData holds
RankCount == 12

\* observations of one term and year, with equal values among them and one
\* value that is no number, each of its own library
RankData ==
    [i \in 1..RankCount |->
        Obs(10 + i, Folk54.id,
            IF i = 5 THEN Null ELSE Num(FromInt(((i * 5) % 4) + 1)),
            LibString(<<"K">> \o DecimalString(i)),
            2014,
            IF i % 2 = 0 THEN "folkbibliotek" ELSE "skolbibliotek")]

\* what the upstream API can hold
Datasets ==
    {<<>>, <<ObsA, ObsB, ObsC>>, <<ObsB, ObsE, ObsA, ObsD>>, <<ObsC, ObsA>>,
     CompareData, RankData \o <<ObsOld, ObsNull>>}

\* limit: 1000 in getLibraryObservations; the default of the limit parameters
LibraryLimit == 1000

DefaultLimit == 1000

\* the query fetchObservations sends: term ("" when not given) and limit
Params(term, limit) == [path |-> "/data", term |-> term, limit |-> limit]

\* the query fetchTerms sends: no parameters
TermsQuery == [path |-> "/def/terms", term |-> <<>>, limit |-> 0]

\* the term definitions the upstream API serves at /def/terms
UpstreamTerms == <<Aktiv01, Besok12, Folk54>>

\* GET /data?term&limit : the '@graph' of the response, the observations of
\* the requested term capped by limit
UpstreamGraph(params, data) ==
    LET OfTerm(o) == params.term = <<>> \/ o.term = params.term
    IN  IF params.path = "/def/terms" THEN UpstreamTerms
        ELSE Take(SelectSeq(data, OfTerm), params.limit)

\* mutant: the library is matched without regard to case
libMatchIgnoreCase(obs, libraryId) ==
    /\ obs.library.kind = "object" \/ (obs.library.kind = "string" /\ obs.library.id # <<>>)
    /\ obs.library.hasId
    /\ includes(toLowerCase(obs.library.id), toLowerCase(libraryId))

\* obs.library && (typeof obs.library === 'string'
\*     ? obs.library.includes(libraryId) : obs.library['@id']?.includes(libraryId))
libMatch(obs, libraryId) ==
    /\ obs.library.kind = "object" \/ (obs.library.kind = "string" /\ obs.library.id # <<>>)
    /\ IF obs.library.kind = "string"
       THEN includes(obs.library.id, libraryId)
       ELSE obs.library.hasId /\ includes(obs.library.id, libraryId)

\* year ? obs.sampleYear === year : true
yearMatch(obs, year) == IF year # 0 THEN obs.sampleYear = year ELSE TRUE

\* the filter of getLibraryObservations
getLibraryObservations(graph, libraryId, year) ==
    LET Keep(obs) == libMatch(obs, libraryId) /\ yearMatch(obs, year)
    IN  SelectSeq(graph, Keep)

\* the filter of getObservationsByYear
getObservationsByYear(graph, year) ==
    LET Keep(obs) == obs.sampleYear = year
    IN  SelectSeq(graph, Keep)

\* the filter of getObservationsByTargetGroup
getObservationsByTargetGroup(graph, targetGroup, year) ==
    LET Keep(obs) == obs.targetGroup = targetGroup /\ yearMatch(obs, year)
    IN  SelectSeq(graph, Keep)

(***************************************************************************)
(* The batch operations getMultipleTerms and compareMultipleLibraries.     *)
(***************************************************************************)
\* the body of the loop of getMultipleTerms for one response
getMultipleTermsStep(result, termId, graph, year) ==
    MapSet(result, termId, IF year # 0 THEN getObservationsByYear(graph, year) ELSE graph)

\* mutant: a library without observations gets no result
compareMultipleLibrariesStepSkipsEmpty(results, libraryId, graph, year) ==
    LET observations == getLibraryObservations(graph, libraryId, year)
    IN  IF Len(observations) > 0
        THEN Append(results,
                    [libraryId |-> libraryId, value |-> observations[1].value,
                     observation |-> <<observations[1]>>])
        ELSE results

\* the body of the loop of compareMultipleLibraries for one response
compareMultipleLibrariesStep(results, libraryId, graph, year) ==
    LET observations == getLibraryObservations(graph, libraryId, year)
    IN  Append(results,
               IF Len(observations) > 0
               THEN [libraryId |-> libraryId, value |-> observations[1].value,
                     observation |-> <<observations[1]>>]
               ELSE [libraryId |-> libraryId, value |-> Null, observation |-> <<>>])

\* mutant: the requests of all n elements are issued at once
IssuedAfterParallel(n, received) == n

\* for (const x of list) { ... await fetchObservations(...) ... } : how many
\* requests the loop has issued once `received` responses have arrived
IssuedAfter(n, received) == Min2(n, received + 1)

(***************************************************************************)
(* fetchObservations / fetchTerms: the outcome of one HTTP exchange, and    *)
(* the catch block of the tool handler (index.ts).                         *)
(***************************************************************************)
\* response.ok
Ok(response) == response.status \in 200..299

OkResponse == [status |-> 200, statusText |-> "OK"]

\* the non-2xx answers the upstream gives
ErrorResponses == {[status |-> 404, statusText |-> "Not Found"],
                   [status |-> 500, statusText |-> "Internal Server Error"]}

\* fetch itself rejects (no connection): a TypeError with this message
NetworkError == "fetch failed"

\* mutant: the error names neither the status nor the reason
KBApiErrorBare(response) == "KB API error"

\* throw new Error(`KB API error: ${response.status} ${response.statusText}`)
KBApiError(response) ==
    "KB API error: " \o ToString(response.status) \o " " \o response.statusText

\* what await fetchObservations(...) throws when the exchange ends in response
Thrown(response) ==
    IF response = NoResponse THEN NetworkError ELSE KBApiError(response)

\* the catch block of the handler: an error that is not an McpError is
\* wrapped into an InternalError that quotes its message
ToolExecutionFailed(message) ==
    McpError("InternalError", "Tool execution failed: " \o message)

\* mutant: the handler answers a failed fetch with the text built so far
PropagateReturnsPartial(c, response) ==
    [c EXCEPT !.pc = "failed", !.error = Thrown(response),
              !.response = response, !.outcome = TextResult]

\* The error thrown by a fetch leaves the operation, whose locals are
\* dropped, and reaches the catch block of the handler.
Propagate(c, response) ==
    [c EXCEPT !.pc = "failed", !.result = <<>>, !.error = Thrown(response),
              !.response = response,
              !.outcome = ToolExecutionFailed(Thrown(response))]

(***************************************************************************)
(* compareLibraryYears: the comparison of two filtered windows.            *)
(***************************************************************************)
\* 100 is a binary64 number; the product with it is rounded once
Hundred == [m |-> 25, e |-> 2]

NoValues == [year1 |-> Undefined, year2 |-> Undefined]

\* mutant: the first observation of a term is kept
RECURSIVE Year1MapKeepsFirst(_, _)
Year1MapKeepsFirst(termsMap, year1Data) ==
    IF year1Data = <<>> THEN termsMap
    ELSE LET obs == Head(year1Data)
             seen == \E i \in 1..Len(termsMap) : termsMap[i][1] = obs.term
         IN  Year1MapKeepsFirst(
                 IF obs.term # <<>> /\ ~seen
                 THEN MapSet(termsMap, obs.term, [NoValues EXCEPT !.year1 = obs.value])
                 ELSE termsMap,
                 Tail(year1Data))

\* year1Data.forEach(obs => { if (obs.term) termsMap.set(obs.term, {year1: obs.value}) })
RECURSIVE Year1Map(_, _)
Year1Map(termsMap, year1Data) ==
    IF year1Data = <<>> THEN termsMap
    ELSE LET obs == Head(year1Data)
         IN  Year1Map(IF obs.term # <<>>
                      THEN MapSet(termsMap, obs.term, [NoValues EXCEPT !.year1 = obs.value])
                      ELSE termsMap,
                      Tail(year1Data))

\* year2Data.forEach(obs => { ... termsMap.set(obs.term, {...existing, year2: obs.value}) })
RECURSIVE Year2Map(_, _)
Year2Map(termsMap, year2Data) ==
    IF year2Data = <<>> THEN termsMap
    ELSE LET obs == Head(year2Data)
             existing == MapGetOr(termsMap, obs.term, NoValues)
         IN  Year2Map(IF obs.term # <<>>
                      THEN MapSet(termsMap, obs.term, [existing EXCEPT !.year2 = obs.value])
                      ELSE termsMap,
                      Tail(year2Data))

\* mutant: the percentage is computed whenever both values are numeric
percentChangeUnguarded(year1, year2) ==
    IF year1.kind = "number" /\ year2.kind = "number"
    THEN IF year1.num = Zero THEN [kind |-> "infinity", num |-> Zero]
         ELSE Num(FMul(FDiv(FSub(year2.num, year1.num), year1.num), Hundred))
    ELSE Undefined

\* if (values.year1 !== 0) percentChange = ((year2 - year1) / year1) * 100,
\* inside the test that both values are numbers
percentChange(year1, year2) ==
    IF year1.kind = "number" /\ year2.kind = "number" /\ year1.num # Zero
    THEN Num(FMul(FDiv(FSub(year2.num, year1.num), year1.num), Hundred))
    ELSE Undefined

\* one element of comparison; a property that is not set is undefined
comparisonItem(term, vals) ==
    [term |-> term,
     year1Value |-> vals.year1,
     year2Value |-> vals.year2,
     change |-> IF vals.year1.kind = "number" /\ vals.year2.kind = "number"
                THEN Num(FSub(vals.year2.num, vals.year1.num))
                ELSE Undefined,
     percentChange |-> percentChange(vals.year1, vals.year2)]

compareLibraryYears(year1Data, year2Data) ==
    LET termsMap == Year2Map(Year1Map(<<>>, year1Data), year2Data)
    IN  [year1Data |-> year1Data,
         year2Data |-> year2Data,
         comparison |-> [i \in 1..Len(termsMap) |->
                            comparisonItem(termsMap[i][1], termsMap[i][2])]]

(***************************************************************************)
(* getTermTrend and aggregateByTargetGroup.                                *)
(***************************************************************************)
\* limit: 5000 of getTermTrend, aggregateByTargetGroup and generateTermReport
AnalysisLimit == 5000

\* Array.prototype.sort() without a comparator: the elements are compared
\* as strings, by code units
RECURSIVE InsertDefault(_, _)
InsertDefault(x, s) ==
    IF s = <<>> THEN <<x>>
    ELSE IF StringLess(DecimalString(x), DecimalString(Head(s))) THEN <<x>> \o s
    ELSE <<Head(s)>> \o InsertDefault(x, Tail(s))

RECURSIVE SortDefault(_)
SortDefault(s) ==
    IF s = <<>> THEN <<>>
    ELSE InsertDefault(s[Len(s)], SortDefault(SubSeq(s, 1, Len(s) - 1)))

\* Math.min(...values), Math.max(...values) of a non-empty array
RECURSIVE MathMin(_)
MathMin(vs) ==
    IF Len(vs) = 1 THEN vs[1]
    ELSE LET m == MathMin(Tail(vs)) IN IF FLt(m, vs[1]) THEN m ELSE vs[1]

RECURSIVE MathMax(_)
MathMax(vs) ==
    IF Len(vs) = 1 THEN vs[1]
    ELSE LET m == MathMax(Tail(vs)) IN IF FLt(vs[1], m) THEN m ELSE vs[1]

\* mutant: a value that is not a number is counted as 0
NumericOrZero(obs) == TRUE

\* typeof obs.value === 'number'
IsNumeric(obs) == obs.value.kind = "number"

\* the number pushed for an observation that passed the test
Pushed(obs) == IF obs.value.kind = "number" THEN obs.value.num ELSE Zero

\* mutant: the range excludes endYear
InRangeExclusive(obs, startYear, endYear) ==
    obs.sampleYear # 0 /\ obs.sampleYear >= startYear /\ obs.sampleYear < endYear

\* obs.sampleYear && obs.sampleYear >= startYear && obs.sampleYear <= endYear
InRange(obs, startYear, endYear) ==
    obs.sampleYear # 0 /\ obs.sampleYear >= startYear /\ obs.sampleYear <= endYear

\* yearMap after observations.forEach: year -> the numeric values of the year
RECURSIVE YearMapFrom(_, _, _, _)
YearMapFrom(yearMap, observations, startYear, endYear) ==
    IF observations = <<>> THEN yearMap
    ELSE LET obs == Head(observations)
         IN  YearMapFrom(
                 IF InRange(obs, startYear, endYear) /\ IsNumeric(obs)
                 THEN MapSet(yearMap, obs.sampleYear,
                             Append(MapGetOr(yearMap, obs.sampleYear, <<>>), Pushed(obs)))
                 ELSE yearMap,
                 Tail(observations), startYear, endYear)

\* the element of statistics for one year of yearMap
YearStatistics(year, vs) ==
    LET sum == SumFrom(Zero, vs)
    IN  [year |-> year,
         count |-> Len(vs),
         sum |-> sum,
         average |-> IF Len(vs) > 0 THEN Num(FDiv(sum, FromInt(Len(vs)))) ELSE Undefined,
         min |-> IF Len(vs) > 0 THEN Num(MathMin(vs)) ELSE Undefined,
         max |-> IF Len(vs) > 0 THEN Num(MathMax(vs)) ELSE Undefined]

getTermTrend(graph, termId, startYear, endYear) ==
    LET yearMap == YearMapFrom(<<>>, graph, startYear, endYear)
        years == SortDefault([i \in 1..Len(yearMap) |-> yearMap[i][1]])
    IN  [term |-> termId,
         years |-> years,
         statistics |-> [i \in 1..Len(years) |->
                            YearStatistics(years[i], MapGetOr(yearMap, years[i], <<>>))]]

\* groupMap after observations.forEach: group -> the numeric values of the group
RECURSIVE GroupMapFrom(_, _)
GroupMapFrom(groupMap, observations) ==
    IF observations = <<>> THEN groupMap
    ELSE LET obs == Head(observations)
         IN  GroupMapFrom(
                 IF obs.targetGroup # "" /\ IsNumeric(obs)
                 THEN MapSet(groupMap, obs.targetGroup,
                             Append(MapGetOr(groupMap, obs.targetGroup, <<>>), Pushed(obs)))
                 ELSE groupMap,
                 Tail(observations))

\* the value of result for one group of groupMap
GroupStatistics(vs) ==
    LET sum == SumFrom(Zero, vs)
    IN  [count |-> Len(vs),
         sum |-> sum,
         average |-> FDiv(sum, FromInt(Len(vs))),
         min |-> MathMin(vs),
         max |-> MathMax(vs)]

\* the Map aggregateByTargetGroup returns for the fetched window
aggregateByTargetGroup(graph, year) ==
    LET OfYear(obs) == obs.sampleYear = year
        observations == IF year # 0 THEN SelectSeq(graph, OfYear) ELSE graph
        groupMap == GroupMapFrom(<<>>, observations)
    IN  [i \in 1..Len(groupMap) |->
            <<groupMap[i][1], GroupStatistics(groupMap[i][2])>>]

(***************************************************************************)
(* generateTermReport.                                                     *)
(***************************************************************************)
\* .slice(0, 10)
TopCount == 10

\* statistics: null when the year has no numeric value
NoStatistics == [status |-> "null"]

\* typeof obs.library === 'object' ? obs.library['@id'] || obs.library.name
\*                                 : obs.library
LibraryLabel(obs) ==
    IF obs.library.kind = "object"
    THEN IF obs.library.hasId /\ obs.library.id # <<>>
         THEN obs.library.id ELSE obs.library.name
    ELSE obs.library.id

\* mutant: an element is placed before the elements of equal value
RECURSIVE InsertDescendingBeforeEqual(_, _)
InsertDescendingBeforeEqual(x, s) ==
    IF s = <<>> THEN <<x>>
    ELSE IF FLe(Head(s).value, x.value) THEN <<x>> \o s
    ELSE <<Head(s)>> \o InsertDescendingBeforeEqual(x, Tail(s))

\* .sort((a, b) => b.value - a.value): the sort is stable, and the sign of
\* the rounded difference is the sign of the exact one
RECURSIVE InsertDescending(_, _)
InsertDescending(x, s) ==
    IF s = <<>> THEN <<x>>
    ELSE IF FLt(Head(s).value, x.value) THEN <<x>> \o s
    ELSE <<Head(s)>> \o InsertDescending(x, Tail(s))

RECURSIVE SortDescending(_)
SortDescending(s) ==
    IF s = <<>> THEN <<>>
    ELSE InsertDescending(s[Len(s)], SortDescending(SubSeq(s, 1, Len(s) - 1)))

\* the report built from the term details, the window of the first fetch
\* and the Map aggregateByTargetGroup made of the second
generateTermReport(termDetails, graph, byTargetGroup, termId, year) ==
    LET OfYear(obs) == obs.sampleYear = year
        observations == SelectSeq(graph, OfYear)
        numeric == SelectSeq(observations, IsNumeric)
        numericValues == [i \in 1..Len(numeric) |-> Pushed(numeric[i])]
        librariesWithValues ==
            [i \in 1..Len(numeric) |->
                [library |-> LibraryLabel(numeric[i]), value |-> Pushed(numeric[i])]]
    IN  [term |-> termId,
         year |-> year,
         termDetails |-> termDetails,
         totalObservations |-> Len(observations),
         statistics |-> IF Len(numericValues) > 0
                        THEN calculateStatistics(numericValues)
                        ELSE NoStatistics,
         byTargetGroup |-> byTargetGroup,
         topLibraries |-> Take(SortDescending(librariesWithValues), TopCount)]

(***************************************************************************)
(* exportToCSV and the export_to_csv tool.  The CSV text is kept as the    *)
(* sequence of the pieces the code concatenates: a piece is one character  *)
(* or, for a target group, the whole name; "\n" is a piece of its own.     *)
(* No modelled observation has a 'modified' field.                         *)
(***************************************************************************)
Quote == "\""

Comma == ","

NewLine == "\n"

\* the text of a value that is a string and no number
TextContent == <<"n", "a">>

\* the digits of r / 2^k after the decimal point (r < 2^k)
RECURSIVE FractionDigits(_, _)
FractionDigits(r, k) ==
    IF r = 0 THEN <<>>
    ELSE <<Digits[((r * 10) \div (2^k)) + 1]>> \o FractionDigits((r * 10) % (2^k), k)

\* String(x) of a number: its decimal expansion, which is finite
NumberString(x) ==
    LET sign == IF x.m < 0 THEN <<"-">> ELSE <<>>
        a == Abs(x.m)
    IN  IF x.e >= 0 THEN sign \o DecimalString(a * 2^(x.e))
        ELSE sign \o DecimalString(a \div (2^(-x.e))) \o <<".">>
                  \o FractionDigits(a % (2^(-x.e)), -x.e)

Quoted(str) == <<Quote>> \o str \o <<Quote>>

\* headers.join(',') + '\n'
CsvHeader ==
    <<"@", "i", "d", Comma, "t", "e", "r", "m", Comma, "v", "a", "l", "u", "e", Comma,
      "l", "i", "b", "r", "a", "r", "y", Comma,
      "s", "a", "m", "p", "l", "e", "Y", "e", "a", "r", Comma,
      "t", "a", "r", "g", "e", "t", "G", "r", "o", "u", "p", Comma,
      "m", "o", "d", "i", "f", "i", "e", "d", NewLine>>

\* obs.value !== undefined ? obs.value : '' , as join renders it: null and
\* undefined elements of an array are joined as the empty string
CsvValue(value) ==
    CASE value.kind = "number" -> NumberString(value.num)
      [] value.kind = "string" -> TextContent
      [] OTHER -> <<>>

\* typeof obs.library === 'object'
\*     ? obs.library['@id'] || obs.library.name : obs.library || ''
CsvLibrary(library) ==
    CASE library.kind = "object" ->
            IF library.hasId /\ library.id # <<>> THEN library.id
            ELSE IF library.name # <<>> THEN library.name
            ELSE <<"u", "n", "d", "e", "f", "i", "n", "e", "d">>
      [] library.kind = "string" -> library.id
      [] OTHER -> <<>>

\* row.join(',') + '\n'
CsvRow(obs) ==
    Quoted(DecimalString(obs.id)) \o <<Comma>>
    \o Quoted(obs.term) \o <<Comma>>
    \o CsvValue(obs.value) \o <<Comma>>
    \o Quoted(CsvLibrary(obs.library)) \o <<Comma>>
    \o (IF obs.sampleYear # 0 THEN DecimalString(obs.sampleYear) ELSE <<>>) \o <<Comma>>
    \o Quoted(IF obs.targetGroup # "" THEN <<obs.targetGroup>> ELSE <<>>) \o <<Comma>>
    \o Quoted(<<>>) \o <<NewLine>>

RECURSIVE CsvRows(_)
CsvRows(observations) ==
    IF observations = <<>> THEN <<>>
    ELSE CsvRow(Head(observations)) \o CsvRows(Tail(observations))

\* mutant: the header is written for an empty export as well
exportToCSVHeaderAlways(observations) == CsvHeader \o CsvRows(observations)

exportToCSV(observations) ==
    IF Len(observations) = 0 THEN <<>>
    ELSE CsvHeader \o CsvRows(observations)

\* the export_to_csv handler after its fetch: the optional year filter and
\* the export
exportToCsvTool(graph, year) ==
    LET observations == IF year # 0 THEN getObservationsByYear(graph, year) ELSE graph
    IN  [observations |-> observations, csv |-> exportToCSV(observations)]

(***************************************************************************)
(* Spec: one invocation of an observation operation against the upstream.  *)
(***************************************************************************)
MaxBatch == 2

LibraryIds == {K1, k1, Mal}

Years == {2014, 2015}

\* the years a trend is asked for
TrendYears == {999, 2014, 2015}

TermFilters == {<<>>, Folk54.id}

TermIds == {Folk54.id, Aktiv01.id}

TargetGroups == {"folkbibliotek", "skolbibliotek"}

Limits == {1, DefaultLimit}

\* the files the server can be started on
ServerTermFiles == {FileMissing, FileOf(<<Folk54, Aktiv01, Besok12>>)}

Batches(S) == SeqsUpTo(S, MaxBatch) \ {<<>>}

FetchOps == {"fetchObservations", "fetchTerms"}

FilterOps == {"getLibraryObservations", "getObservationsByYear",
              "getObservationsByTargetGroup"}

BatchOps == {"getMultipleTerms", "compareMultipleLibraries"}

PairOps == {"compareLibraryYears", "generateTermReport"}

\* the operations that take two years
YearOps == {"compareLibraryYears", "getTermTrend"}

\* the parameters of the k-th request of the operation
RequestOf(op, args, k) ==
    CASE op = "fetchObservations" -> Params(args.term, args.limit)
      [] op = "fetchTerms" -> TermsQuery
      [] op = "getLibraryObservations" -> Params(args.term, LibraryLimit)
      [] op = "getObservationsByYear" -> Params(args.term, args.limit)
      [] op = "getObservationsByTargetGroup" -> Params(args.term, args.limit)
      [] op = "getMultipleTerms" -> Params(args.elements[k], args.limit)
      [] op = "compareMultipleLibraries" -> Params(args.term, LibraryLimit)
      [] op = "compareLibraryYears" -> Params(args.term, LibraryLimit)
      [] op = "getTermTrend" -> Params(args.term, AnalysisLimit)
      [] op = "aggregateByTargetGroup" -> Params(args.term, AnalysisLimit)
      [] op = "generateTermReport" -> Params(args.term, AnalysisLimit)
      [] op = "exportToCSV" -> Params(args.term, args.limit)

\* how many upstream calls the operation makes when none fails
FetchCount(op, args) ==
    IF op \in BatchOps THEN Len(args.elements)
    ELSE IF op \in PairOps THEN 2
    ELSE 1

\* mutant: no parameter is checked
MissingRequiredUnchecked(op, args) == FALSE

\* the tests of the handlers that throw InvalidParams: a required parameter
\* is absent (or falsy), or a required list is empty
MissingRequired(op, args) ==
    CASE op = "getLibraryObservations" -> args.libraryId = <<>>
      [] op = "getObservationsByYear" -> args.year = 0
      [] op = "getObservationsByTargetGroup" -> args.targetGroup = ""
      [] op = "getMultipleTerms" -> args.elements = <<>>
      [] op = "compareMultipleLibraries" ->
            args.elements = <<>> \/ args.term = <<>> \/ args.year = 0
      [] op = "compareLibraryYears" ->
            args.libraryId = <<>> \/ args.year = 0 \/ args.year2 = 0
      [] op = "getTermTrend" ->
            args.term = <<>> \/ args.year = 0 \/ args.year2 = 0
      [] op = "aggregateByTargetGroup" -> args.term = <<>>
      [] op = "generateTermReport" -> args.term = <<>> \/ args.year = 0
      [] op = "exportToCSV" -> args.term = <<>>
      [] OTHER -> FALSE

\* the message of the McpError the handler throws (in ASCII)
InvalidParamsMessage(op, args) ==
    CASE op = "getLibraryObservations" -> "Parameter library_id ar obligatorisk"
      [] op = "getObservationsByYear" -> "Parameter year ar obligatorisk"
      [] op = "getObservationsByTargetGroup" -> "Parameter target_group ar obligatorisk"
      [] op = "getMultipleTerms" -> "Parameter term_ids maste vara en icke-tom array"
      [] op = "compareMultipleLibraries" ->
            IF args.elements = <<>>
            THEN "Parameter library_ids maste vara en icke-tom array"
            ELSE "Parametrar term_id och year ar obligatoriska"
      [] op = "compareLibraryYears" ->
            "Parametrar library_id, year1 och year2 ar obligatoriska"
      [] op = "getTermTrend" ->
            "Parametrar term_id, start_year och end_year ar obligatoriska"
      [] op = "aggregateByTargetGroup" -> "Parameter term_id ar obligatorisk"
      [] op = "generateTermReport" -> "Parametrar term_id och year ar obligatoriska"
      [] op = "exportToCSV" -> "Parameter term ar obligatorisk"

\* A tool invocation: the handler checks the required parameters and throws
\* InvalidParams, or calls the operation, which runs to its first await (in
\* generateTermReport the readFile of loadTermsFromFile, unless the terms are
\* cached; elsewhere the first fetch).  A rejected invocation leaves the
\* server ready for the next one.  The handler reads the parameters off
\* request.params.arguments one by one; those the tool does not take are
\* passed empty.
Invoke(op, libraryId, year, year2, term, targetGroup, limit, elements) ==
    LET args == IF op \in YearOps
                THEN YearArgs(libraryId, year, year2, term)
                ELSE Args(libraryId, year, term, targetGroup, limit, elements)
    IN
    /\ call.pc \in {"idle", "rejected"}
    /\ IF MissingRequired(op, args)
       THEN /\ call' = [NoCall EXCEPT
                           !.pc = "rejected", !.op = op, !.args = args,
                           !.error = InvalidParamsMessage(op, args),
                           !.outcome = McpError("InvalidParams",
                                                InvalidParamsMessage(op, args))]
            /\ UNCHANGED <<requests, inFlight, termVars>>
       ELSE IF op = "generateTermReport" /\ ~CacheHit(termsCache)
       THEN /\ call' = [NoCall EXCEPT !.pc = "reading", !.op = op, !.args = args]
            /\ readCount' = readCount + 1
            /\ UNCHANGED <<requests, inFlight, termsCache, termsFile,
                           cacheWrites, readSucceeded, calls>>
       ELSE /\ LET n == IssuedAfter(FetchCount(op, args), 0)
               IN  /\ requests' = requests \o [k \in 1..n |-> RequestOf(op, args, k)]
                   /\ inFlight' = inFlight + n
            /\ call' = [NoCall EXCEPT
                           !.pc = "awaiting", !.op = op, !.args = args,
                           !.termDetails =
                               IF op = "generateTermReport"
                               THEN getTermDetails(termsCache.terms, args.term)
                               ELSE <<>>]
            /\ UNCHANGED termVars
    /\ UNCHANGED <<upstream, statVars>>

\* search_library_statistics
FetchObservations ==
    \E term \in TermFilters, limit \in Limits :
        Invoke("fetchObservations", <<>>, 0, 0, term, "", limit, <<>>)

\* get_term_definitions
FetchTerms == Invoke("fetchTerms", <<>>, 0, 0, <<>>, "", 0, <<>>)

GetLibraryObservations ==
    \E libraryId \in LibraryIds \cup {<<>>}, year \in Years \cup {0},
       term \in TermFilters :
        Invoke("getLibraryObservations", libraryId, year, 0, term, "", 0, <<>>)

GetObservationsByYear ==
    \E year \in Years \cup {0}, term \in TermFilters, limit \in Limits :
        Invoke("getObservationsByYear", <<>>, year, 0, term, "", limit, <<>>)

GetObservationsByTargetGroup ==
    \E group \in TargetGroups \cup {""}, year \in Years \cup {0},
       term \in TermFilters, limit \in Limits :
        Invoke("getObservationsByTargetGroup", <<>>, year, 0, term, group, limit, <<>>)

GetMultipleTerms ==
    \E termIds \in Batches(TermIds) \cup {<<>>}, year \in {0, 2015},
       limit \in Limits :
        Invoke("getMultipleTerms", <<>>, year, 0, <<>>, "", limit, termIds)

CompareMultipleLibraries ==
    \E libraryIds \in Batches({K1, Mal}) \cup {<<>>}, year \in Years \cup {0},
       term \in TermFilters :
        Invoke("compareMultipleLibraries", <<>>, year, 0, term, "", 0, libraryIds)

CompareLibraryYears ==
    \E libraryId \in {K1, k1, <<>>}, year1 \in Years \cup {0},
       year2 \in Years \cup {0}, term \in TermFilters :
        Invoke("compareLibraryYears", libraryId, year1, year2, term, "", 0, <<>>)

GetTermTrend ==
    \E termId \in TermIds \cup {<<>>}, startYear \in TrendYears \cup {0},
       endYear \in TrendYears \cup {0} :
        Invoke("getTermTrend", <<>>, startYear, endYear, termId, "", 0, <<>>)

AggregateByTargetGroup ==
    \E termId \in TermIds \cup {<<>>}, year \in Years \cup {0} :
        Invoke("aggregateByTargetGroup", <<>>, year, 0, termId, "", 0, <<>>)

GenerateTermReport ==
    \E termId \in TermIds \cup {<<>>}, year \in Years \cup {0} :
        Invoke("generateTermReport", <<>>, year, 0, termId, "", 0, <<>>)

\* export_to_csv
ExportToCsv ==
    \E term \in TermFilters, year \in Years \cup {0}, limit \in Limits :
        Invoke("exportToCSV", <<>>, year, 0, term, "", limit, <<>>)

\* readFile settles for generateTermReport: loadTermsFromFile assigns the
\* cache, getTermDetails looks the term up, and the first fetch is issued
TermsLoaded ==
    /\ call.pc = "reading"
    /\ termsCache' = Cached(LoadedTerms(termsFile))
    /\ cacheWrites' = cacheWrites + 1
    /\ readSucceeded' = (readSucceeded \/ termsFile.state # "missing")
    /\ call' = [call EXCEPT
                   !.pc = "awaiting",
                   !.termDetails = getTermDetails(LoadedTerms(termsFile), call.args.term)]
    /\ requests' = Append(requests, RequestOf(call.op, call.args, 1))
    /\ inFlight' = inFlight + 1
    /\ UNCHANGED <<termsFile, readCount, calls, upstream, statVars>>

\* what the operation holds after the k-th response
ResultAfter(c, k, graph) ==
    CASE c.op \in FetchOps -> graph
      [] c.op = "getLibraryObservations" ->
            getLibraryObservations(graph, c.args.libraryId, c.args.year)
      [] c.op = "getObservationsByYear" ->
            getObservationsByYear(graph, c.args.year)
      [] c.op = "getObservationsByTargetGroup" ->
            getObservationsByTargetGroup(graph, c.args.targetGroup, c.args.year)
      [] c.op = "getMultipleTerms" ->
            getMultipleTermsStep(c.result, c.args.elements[k], graph, c.args.year)
      [] c.op = "compareMultipleLibraries" ->
            compareMultipleLibrariesStep(c.result, c.args.elements[k], graph, c.args.year)
      [] c.op = "compareLibraryYears" ->
            IF k = 1 THEN c.result
            ELSE compareLibraryYears(
                     getLibraryObservations(c.windows[1], c.args.libraryId, c.args.year),
                     getLibraryObservations(graph, c.args.libraryId, c.args.year2))
      [] c.op = "getTermTrend" ->
            getTermTrend(graph, c.args.term, c.args.year, c.args.year2)
      [] c.op = "aggregateByTargetGroup" ->
            aggregateByTargetGroup(graph, c.args.year)
      [] c.op = "generateTermReport" ->
            IF k = 1 THEN c.result
            ELSE generateTermReport(c.termDetails, c.windows[1],
                                    aggregateByTargetGroup(graph, c.args.year),
                                    c.args.term, c.args.year)
      [] c.op = "exportToCSV" -> exportToCsvTool(graph, c.args.year)

\* The upstream answers the oldest outstanding request with status 2xx; the
\* operation resumes and runs to its next await or to its return, where the
\* handler formats the result as text.
FetchReturns ==
    /\ call.pc = "awaiting"
    /\ inFlight > 0
    /\ LET k == Len(call.windows) + 1
           graph == UpstreamGraph(requests[k], upstream)
           n == FetchCount(call.op, call.args)
           issued == Max2(Len(requests), IssuedAfter(n, k))
       IN  /\ call' = [call EXCEPT
                          !.windows = Append(@, graph),
                          !.result = ResultAfter(call, k, graph),
                          !.response = OkResponse,
                          !.outcome = IF k = n THEN TextResult ELSE @,
                          !.pc = IF k = n THEN "returned" ELSE "awaiting"]
           /\ requests' = requests \o
                  [j \in 1..(issued - Len(requests)) |->
                      RequestOf(call.op, call.args, Len(requests) + j)]
           /\ inFlight' = inFlight - 1 + (issued - Len(requests))
    /\ UNCHANGED <<upstream, statVars, termVars>>

\* The upstream answers with a non-2xx status, or the connection fails:
\* the fetch throws, and the error leaves the operation.
FetchFails ==
    /\ call.pc = "awaiting"
    /\ inFlight > 0
    /\ \E response \in ErrorResponses \cup {NoResponse} :
          call' = Propagate(call, response)
    /\ inFlight' = inFlight - 1
    /\ UNCHANGED <<requests, upstream, statVars, termVars>>

\* the data of the upstream API changes
ChangeUpstream ==
    /\ \E d \in Datasets \ {upstream} : upstream' = d
    /\ UNCHANGED <<call, inFlight, requests, statVars, termVars>>

Init ==
    /\ upstream \in Datasets
    /\ call = NoCall
    /\ inFlight = 0
    /\ requests = <<>>
    /\ StatIdle
    /\ termsCache = NullCache
    /\ termsFile \in ServerTermFiles
    /\ readCount = 0
    /\ cacheWrites = 0
    /\ readSucceeded = FALSE
    /\ calls = [c \in CallIds |-> IdleCall]

Next ==
    \/ FetchObservations
    \/ FetchTerms
    \/ GetLibraryObservations
    \/ GetObservationsByYear
    \/ GetObservationsByTargetGroup
    \/ GetMultipleTerms
    \/ CompareMultipleLibraries
    \/ CompareLibraryYears
    \/ GetTermTrend
    \/ AggregateByTargetGroup
    \/ GenerateTermReport
    \/ ExportToCsv
    \/ TermsLoaded
    \/ FetchReturns
    \/ FetchFails
    \/ ChangeUpstream

Spec == Init /\ [][Next]_vars

(***************************************************************************)
(* StatSpec.                                                               *)
(***************************************************************************)
StatInit ==
    /\ values \in StatInputs
    /\ statistics = NotCalled
    /\ TermIdle
    /\ ObsIdle

CalculateStatistics ==
    /\ statistics = NotCalled
    /\ statistics' = calculateStatistics(values)
    /\ UNCHANGED <<values, termVars, obsVars>>

StatNext == CalculateStatistics

StatSpec == StatInit /\ [][StatNext]_vars

(***************************************************************************)
(* Claims about the term cache (TermSpec).                                 *)
(***************************************************************************)
\* a call that leaves "idle" in this step and enters loadTermsFromFile
Enters(c) ==
    /\ calls[c].pc = "idle"
    /\ calls'[c].pc # "idle"
    /\ calls'[c].outcome.kind # "error"

\* C1: once a load has completed with a successful file read, no later call
\* reads the file again: the read count no longer changes, and every call
\* entered from then on returns at once, with the cached term sequence.
C1_NoRereadAfterLoad ==
    [][readSucceeded =>
          /\ readCount' = readCount
          /\ \A c \in CallIds :
                Enters(c) => /\ calls'[c].pc = "done"
                             /\ calls'[c].terms = termsCache.terms]_vars

\* C1 witness: two calls are answered from one file read, the second
\* one from the cache, which holds the three terms of the file.
C1_Witness ==
    /\ readSucceeded
    /\ readCount = 1
    /\ \A c \in CallIds : calls[c].pc = "done"
    /\ \E c \in CallIds :
          /\ calls[c].op.op = "searchTermsByCategory"
          /\ calls[c].terms = <<Folk54, Aktiv01, Besok12>>
          /\ calls[c].result = <<Besok12>>

\* C2 (as claimed): termsCache is written at most once in the process
\* lifetime, under every interleaving of tool invocations.
C2_CacheWrittenAtMostOnce == cacheWrites <= 1

(***************************************************************************)
(* Claims about calculateStatistics (StatSpec).                            *)
(***************************************************************************)
Returned == statistics.status = "returned"

\* x is the element of rank k (0-indexed) of vs in ascending numeric order
IsOrderStatistic(vs, k, x) ==
    /\ x \in Range(vs)
    /\ Cardinality({i \in 1..Len(vs) : FLt(vs[i], x)}) <= k
    /\ Cardinality({i \in 1..Len(vs) : FLe(vs[i], x)}) > k

\* the values of vs that no other value exceeds in frequency
MostFrequent(vs) ==
    {v \in Range(vs) : \A w \in Range(vs) : Frequency(vs, w) <= Frequency(vs, v)}

\* every value of vs occurs equally often
AllTied(vs) == MostFrequent(vs) = Range(vs)

\* C3: on an empty sequence calculateStatistics throws and returns no
\* statistics record.
C3_EmptyThrows ==
    (statistics # NotCalled /\ values = <<>>) =>
        /\ statistics.status = "thrown"
        /\ statistics.message = "Cannot calculate statistics for empty array"

\* C3 witness: the function has been applied to the empty sequence.
C3_Witness == values = <<>> /\ statistics.status = "thrown"

\* C4 (as claimed): for every non-empty input, min <= median <= max and
\* min <= mean <= max.
C4_MedianAndMeanWithinRange ==
    Returned =>
        /\ FLe(statistics.min, statistics.median)
        /\ FLe(statistics.median, statistics.max)
        /\ FLe(statistics.min, statistics.mean)
        /\ FLe(statistics.mean, statistics.max)

\* C5 (as claimed): when the values are not all tied, the mode is the
\* smallest of the most frequent values, whatever the input order.
C5_ModeIsSmallestMostFrequent ==
    (Returned /\ ~AllTied(values)) =>
        /\ statistics.mode.kind = "number"
        /\ statistics.mode.num \in MostFrequent(values)
        /\ \A v \in MostFrequent(values) : FLe(statistics.mode.num, v)

\* C6 (as claimed): when every value is equally frequent the mode is null.
\* Stated for inputs with at least two distinct values, where any reported
\* mode is an arbitrary winner.
C6_ModeNullWhenAllTied ==
    (Returned /\ AllTied(values) /\ Cardinality(Range(values)) >= 2) =>
        statistics.mode = Null

\* C7: percentile25 and percentile75 are the elements of rank
\* floor(n * 0.25) and floor(n * 0.75) (0-indexed) of the input in ascending
\* order, without interpolation; for the values 1..10 they are 3 and 8.
C7_NearestRankPercentiles ==
    Returned =>
        LET n == Len(values)
            k25 == CHOOSE k \in 0..n : 4 * k <= n /\ n < 4 * (k + 1)
            k75 == CHOOSE k \in 0..n : 4 * k <= 3 * n /\ 3 * n < 4 * (k + 1)
        IN  /\ IsOrderStatistic(values, k25, statistics.percentile25)
            /\ IsOrderStatistic(values, k75, statistics.percentile75)
            /\ Range(values) = Range(OneToTen) /\ n = 10 =>
                  /\ statistics.percentile25 = FromInt(3)
                  /\ statistics.percentile75 = FromInt(8)

\* C7 witness: the values 10, 9, ..., 1 give percentile25 = 3, percentile75 = 8.
C7_Witness ==
    /\ values = TenToOne
    /\ Returned
    /\ statistics.percentile25 = FromInt(3)
    /\ statistics.percentile75 = FromInt(8)

(***************************************************************************)
(* Claims about the observation operations (Spec).                         *)
(***************************************************************************)
\* part occurs in str as a contiguous run of characters, compared exactly
IsSubstring(part, str) ==
    \E i \in 1..(Len(str) + 1) : \E j \in (i - 1)..Len(str) : SubSeq(str, i, j) = part

\* the library identifier of an observation: the library string, or the
\* '@id' of the library object; none when the field or the '@id' is absent
HasLibraryIdentifier(o) == o.library.kind # "none" /\ o.library.hasId

\* the predicates of the operation, as the claim states them
Satisfies(o, op, args) ==
    /\ op = "getLibraryObservations" =>
          HasLibraryIdentifier(o) /\ IsSubstring(args.libraryId, o.library.id)
    /\ (op = "getObservationsByYear" \/ args.year # 0) => o.sampleYear = args.year
    /\ op = "getObservationsByTargetGroup" => o.targetGroup = args.targetGroup

\* sub is s restricted to the elements that satisfy the predicates, in the order of s
RECURSIVE IsFilterOf(_, _, _, _)
IsFilterOf(sub, s, op, args) ==
    IF s = <<>> THEN sub = <<>>
    ELSE IF Satisfies(Head(s), op, args)
         THEN sub # <<>> /\ Head(sub) = Head(s) /\ IsFilterOf(Tail(sub), Tail(s), op, args)
         ELSE IsFilterOf(sub, Tail(s), op, args)

\* C8: the three filter operations make one upstream call and return
\* exactly the observations of the fetched window (at most limit records)
\* that satisfy every given predicate, in fetch order; nothing outside the
\* window is returned and no further call is made.
C8_FilterWithinFetchedWindow ==
    (call.op \in FilterOps /\ call.pc # "rejected") =>
        /\ Len(requests) = 1
        /\ requests[1].limit = (IF call.op = "getLibraryObservations"
                                THEN LibraryLimit ELSE call.args.limit)
        /\ call.pc = "returned" =>
              /\ inFlight = 0
              /\ Len(call.windows) = 1
              /\ Len(call.windows[1]) <= requests[1].limit
              /\ IsFilterOf(call.result, call.windows[1], call.op, call.args)

\* C8 witness: getObservationsByYear(2015) with limit 1 has returned nothing
\* although the upstream holds an observation of 2015 beyond the window.
C8_Witness ==
    /\ call.op = "getObservationsByYear"
    /\ call.pc = "returned"
    /\ call.args.year = 2015
    /\ call.args.limit = 1
    /\ call.windows = <<<<ObsA>>>>
    /\ call.result = <<>>
    /\ upstream = <<ObsA, ObsB, ObsC>>

\* C9 (as claimed): getLibraryObservations returns the observations of the
\* window whose library has a name containing library_id.
C9_LibraryMatchedByName ==
    (call.op = "getLibraryObservations" /\ call.pc = "returned") =>
        \A i \in 1..Len(call.windows[1]) :
            LET o == call.windows[1][i]
            IN  (/\ o.library.kind = "object"
                 /\ IsSubstring(call.args.libraryId, o.library.name)
                 /\ (call.args.year # 0 => o.sampleYear = call.args.year))
                => o \in Range(call.result)

\* the request the claim expects for element k of the input list
ExpectedRequest(c, k) ==
    IF c.op = "getMultipleTerms"
    THEN Params(c.args.elements[k], c.args.limit)
    ELSE Params(c.args.term, LibraryLimit)

\* the element the k-th entry of the result belongs to
ResultKey(c, k) ==
    IF c.op = "getMultipleTerms" THEN c.result[k][1] ELSE c.result[k].libraryId

\* C10: getMultipleTerms and compareMultipleLibraries issue one fetch per
\* element, in input order, with at most one request in flight: request
\* k+1 is issued only after response k has arrived, and an operation that
\* returns has issued exactly one request per element.
C10_SequentialBatchFetches ==
    (call.op \in BatchOps /\ call.pc # "rejected") =>
        /\ inFlight <= 1
        /\ Len(requests) <= Len(call.args.elements)
        /\ \A k \in 1..Len(requests) : requests[k] = ExpectedRequest(call, k)
        /\ Len(requests) <= Len(call.windows) + 1
        /\ inFlight = (IF call.pc = "awaiting" THEN 1 ELSE 0)
        /\ call.pc = "returned" =>
              /\ Len(requests) = Len(call.args.elements)
              /\ Len(call.windows) = Len(call.args.elements)
        /\ call.op = "compareMultipleLibraries" =>
              \A k \in 1..Len(call.result) : ResultKey(call, k) = call.args.elements[k]

\* C10 witness: getMultipleTerms of two terms has returned after two
\* requests, one per term, in input order.
C10_Witness ==
    /\ call.op = "getMultipleTerms"
    /\ call.pc = "returned"
    /\ call.args.elements = <<Folk54.id, Aktiv01.id>>
    /\ requests = <<Params(Folk54.id, DefaultLimit), Params(Aktiv01.id, DefaultLimit)>>
    /\ Len(call.result) = 2

(***************************************************************************)
(* Claims about failures and rejected invocations (Spec).                  *)
(***************************************************************************)
\* the message expected for a non-2xx response: status code and reason
ExpectedMessage(response) ==
    CASE response.status = 404 -> "KB API error: 404 Not Found"
      [] response.status = 500 -> "KB API error: 500 Internal Server Error"
      [] OTHER -> "unexpected status"

\* C11: an invocation of fetchObservations or fetchTerms makes exactly one
\* upstream request; when the response is non-2xx the call fails with an
\* error that carries the status code and the reason, no second request is
\* issued, and the handler answers with an InternalError that carries that
\* message.
C11_OneRequestAndFailureReported ==
    /\ (call.op \in FetchOps /\ call.pc # "idle") =>
          /\ Len(requests) = 1
          /\ Len(call.windows) <= 1
          /\ inFlight = (IF call.pc = "awaiting" THEN 1 ELSE 0)
    /\ (call.pc = "failed" /\ call.response # NoResponse) =>
          /\ ~Ok(call.response)
          /\ call.error = ExpectedMessage(call.response)
          /\ call.outcome.kind = "error"
          /\ call.outcome.code = "InternalError"
          /\ call.outcome.message = "Tool execution failed: " \o ExpectedMessage(call.response)
          /\ inFlight = 0

\* C11 witness: fetchTerms has failed on status 500 after its one request.
C11_Witness ==
    /\ call.op = "fetchTerms"
    /\ call.pc = "failed"
    /\ requests = <<TermsQuery>>
    /\ call.response.status = 500
    /\ call.outcome.message =
          "Tool execution failed: KB API error: 500 Internal Server Error"

\* the operations that make more than one upstream call
MultiFetchOps == BatchOps \cup PairOps

Finished == call.pc \in {"returned", "failed", "rejected"}

\* C12: a finished tool call has answered with a text result or with an
\* error, never both: the text result exists only when every fetch of the
\* operation has returned, and when a fetch of a multi-fetch operation fails
\* the call answers with an error, holds no partial result, and has issued
\* no request beyond the failed one.
C12_AllOrNothing ==
    /\ Finished => call.outcome.kind \in {"text", "error"}
    /\ ~Finished => call.outcome = NoOutcome
    /\ call.outcome.kind = "text" <=> call.pc = "returned"
    /\ call.pc = "returned" =>
          /\ Len(call.windows) = FetchCount(call.op, call.args)
          /\ Len(requests) = FetchCount(call.op, call.args)
    /\ (call.pc = "failed" /\ call.op \in MultiFetchOps) =>
          /\ call.outcome.kind = "error"
          /\ call.result = <<>>
          /\ inFlight = 0
          /\ Len(requests) = Len(call.windows) + 1

\* C12 witness: getMultipleTerms of two terms has fetched the observations
\* of the first term and failed on the second: the call holds no result.
C12_Witness ==
    /\ call.op = "getMultipleTerms"
    /\ Len(call.args.elements) = 2
    /\ call.pc = "failed"
    /\ Len(call.windows) = 1
    /\ call.windows[1] # <<>>
    /\ call.result = <<>>
    /\ call.outcome.kind = "error"

(***************************************************************************)
(* Claims about degraded loads and the term operations (TermSpec).         *)
(***************************************************************************)
\* the call resumes in this step from a readFile that failed, or from a
\* JSON.parse that threw
ResumesFromFailedLoad(c) ==
    /\ calls[c].pc = "reading"
    /\ calls'[c].pc # "reading"
    /\ termsFile.state \in {"missing", "corrupt"}

\* C13: when the read of the file or the parse of its content fails,
\* loadTermsFromFile returns the empty sequence and the tool answers with a
\* text result, not an error: the searches find nothing, the lookup finds
\* no term and the category list is empty.
C13_FailedLoadYieldsNoTerms ==
    [][\A c \in CallIds :
          ResumesFromFailedLoad(c) =>
              /\ calls'[c].pc = "done"
              /\ calls'[c].outcome = TextResult
              /\ calls'[c].terms = <<>>
              /\ calls'[c].result = <<>>
              /\ termsCache' = Cached(<<>>)]_vars

\* C13 witness: a lookup by identifier has been answered, without error and
\* without a term, from a file that is not JSON.
C13_Witness ==
    /\ termsFile = FileCorrupt
    /\ cacheWrites = 1
    /\ termsCache = Cached(<<>>)
    /\ \E c \in CallIds :
          /\ calls[c].pc = "done"
          /\ calls[c].op.op = "getTermDetails"
          /\ calls[c].op.arg # <<>>
          /\ calls[c].outcome = TextResult
          /\ calls[c].result = <<>>

\* the required parameters of the tools, from the "required" lists of their
\* input schemas, as fields of the argument record
RequiredParameters(op) ==
    CASE op = "getLibraryObservations" -> {"libraryId"}
      [] op = "getObservationsByYear" -> {"year"}
      [] op = "getObservationsByTargetGroup" -> {"targetGroup"}
      [] op = "getMultipleTerms" -> {"elements"}
      [] op = "compareMultipleLibraries" -> {"elements", "term", "year"}
      [] op = "compareLibraryYears" -> {"libraryId", "year", "year2"}
      [] op = "getTermTrend" -> {"term", "year", "year2"}
      [] op = "aggregateByTargetGroup" -> {"term"}
      [] op = "generateTermReport" -> {"term", "year"}
      [] op = "exportToCSV" -> {"term"}
      [] OTHER -> {}

\* the parameter was left out of the arguments
LeftOut(args, field) ==
    CASE field = "libraryId" -> args.libraryId = <<>>
      [] field = "year" -> args.year = 0
      [] field = "year2" -> args.year2 = 0
      [] field = "term" -> args.term = <<>>
      [] field = "targetGroup" -> args.targetGroup = ""
      [] field = "elements" -> args.elements = <<>>

\* the handler takes up a new invocation in this step
TakesUp == call.pc \in {"idle", "rejected"} /\ call' # call

\* C14: an invocation that lacks a required parameter is answered with an
\* InvalidParams error that has a message; the step issues no upstream
\* request, reads no file and changes nothing of the server but the answer,
\* so the next invocation is taken up exactly as after start-up.
C14_MissingParameterRejected ==
    [][TakesUp =>
          IF \E f \in RequiredParameters(call'.op) : LeftOut(call'.args, f)
          THEN /\ call'.pc = "rejected"
               /\ call'.outcome.kind = "error"
               /\ call'.outcome.code = "InvalidParams"
               /\ call'.outcome.message # ""
               /\ call'.windows = <<>>
               /\ call'.result = <<>>
               /\ UNCHANGED <<requests, inFlight, upstream>>
               /\ UNCHANGED termVars
               /\ requests = <<>> /\ inFlight = 0 /\ termsCache = NullCache
          ELSE call'.pc \in {"awaiting", "reading"}]_vars

\* C14 witness: compare_multiple_libraries, called with its libraries but
\* without a term, has been rejected; nothing was requested or read.
C14_Witness ==
    /\ call.pc = "rejected"
    /\ call.op = "compareMultipleLibraries"
    /\ call.args.elements # <<>>
    /\ call.args.term = <<>>
    /\ call.outcome.code = "InvalidParams"
    /\ requests = <<>>
    /\ readCount = 0

(***************************************************************************)
(* Claims about the analyses (Spec).                                       *)
(***************************************************************************)
ReturnedFrom(op) == call.op = op /\ call.pc = "returned"

\* C15: in the comparison of compareLibraryYears, an element whose values
\* of both years are numbers has change = year2Value - year1Value, and has
\* percentChange = change / year1Value * 100 exactly when year1Value is not
\* 0; with year1Value 0 the percentage is left out while the change is
\* reported; when a value is missing or not a number neither is reported.
C15_ChangeAndPercentChange ==
    ReturnedFrom("compareLibraryYears") =>
        \A i \in 1..Len(call.result.comparison) :
            LET item == call.result.comparison[i]
                y1 == item.year1Value
                y2 == item.year2Value
            IN  IF y1.kind = "number" /\ y2.kind = "number"
                THEN /\ item.change = Num(FSub(y2.num, y1.num))
                     /\ y1.num # Zero =>
                           item.percentChange =
                               Num(FMul(FDiv(item.change.num, y1.num), Hundred))
                     /\ y1.num = Zero => item.percentChange = Undefined
                ELSE item.change = Undefined /\ item.percentChange = Undefined

\* C15 witness: a term that goes from 0 to 50 is reported with change 50
\* and no percentage, next to a term with a percentage and a term whose
\* first value is no number.
C15_Witness ==
    /\ ReturnedFrom("compareLibraryYears")
    /\ \E i, j, k \in 1..Len(call.result.comparison) :
          LET zero == call.result.comparison[i]
              both == call.result.comparison[j]
              none == call.result.comparison[k]
          IN  /\ zero.year1Value = Num(Zero)
              /\ zero.year2Value = Num(FromInt(50))
              /\ zero.change = Num(FromInt(50))
              /\ zero.percentChange = Undefined
              /\ both.percentChange.kind = "number"
              /\ none.year1Value = Text
              /\ none.change = Undefined

\* the indices of the observations of window that have a numeric value and
\* satisfy Test
NumericWhere(window, Test(_)) ==
    {j \in 1..Len(window) : window[j].value.kind = "number" /\ Test(window[j])}

\* C16: getTermTrend returns an entry for year y if and only if
\* startYear <= y <= endYear and the fetched window holds an observation of
\* sampleYear y with a numeric value; years and statistics list the same
\* years, each once, and no entry has a zero count or undefined figures.
C16_TrendYears ==
    ReturnedFrom("getTermTrend") =>
        LET window == call.windows[1]
            years == call.result.years
            stats == call.result.statistics
            Expected ==
                {window[j].sampleYear : j \in
                    {j \in 1..Len(window) :
                        /\ window[j].value.kind = "number"
                        /\ window[j].sampleYear # 0
                        /\ call.args.year <= window[j].sampleYear
                        /\ window[j].sampleYear <= call.args.year2}}
        IN  /\ Range(years) = Expected
            /\ Len(years) = Cardinality(Expected)
            /\ Len(stats) = Len(years)
            /\ \A i \in 1..Len(years) :
                  /\ stats[i].year = years[i]
                  /\ stats[i].count >= 1
                  /\ stats[i].average.kind = "number"
                  /\ stats[i].min.kind = "number"
                  /\ stats[i].max.kind = "number"

\* C16 witness: the trend of a term over 2014..2015 lists 2015 only: the
\* window holds an observation of 2014 too, but its value is no number.
C16_Witness ==
    /\ ReturnedFrom("getTermTrend")
    /\ call.args.year = 2014
    /\ call.args.year2 = 2015
    /\ call.windows[1] = <<ObsT, ObsU>>
    /\ call.result.years = <<2015>>
    /\ Len(call.result.statistics) = 1

\* the numeric values of the observations of window that satisfy Test, in
\* fetch order
NumericValuesWhere(window, Test(_)) ==
    LET Keep(obs) == obs.value.kind = "number" /\ Test(obs)
        kept == SelectSeq(window, Keep)
    IN  [i \in 1..Len(kept) |-> kept[i].value.num]

\* C17: the trend, the aggregation by target group and the report compute
\* their figures over the observations with a numeric value only: the count
\* of a year or a group is the number of fetched observations of that year
\* or group whose value is a number, the sum is the sum of those values,
\* and a value that is missing or no number causes no error: a call fails
\* only on a failed fetch.
C17_NumericValuesOnly ==
    /\ ReturnedFrom("getTermTrend") =>
          \A i \in 1..Len(call.result.statistics) :
              LET s == call.result.statistics[i]
                  OfYear(obs) == obs.sampleYear = s.year
              IN  /\ s.count = Cardinality(NumericWhere(call.windows[1], OfYear))
                  /\ s.sum = SumFrom(Zero, NumericValuesWhere(call.windows[1], OfYear))
    /\ ReturnedFrom("aggregateByTargetGroup") =>
          \A i \in 1..Len(call.result) :
              LET group == call.result[i][1]
                  s == call.result[i][2]
                  OfGroup(obs) == /\ obs.targetGroup = group
                                  /\ call.args.year # 0 => obs.sampleYear = call.args.year
              IN  /\ s.count = Cardinality(NumericWhere(call.windows[1], OfGroup))
                  /\ s.sum = SumFrom(Zero, NumericValuesWhere(call.windows[1], OfGroup))
    /\ ReturnedFrom("generateTermReport") =>
          LET OfYear(obs) == obs.sampleYear = call.args.year
              n == Cardinality(NumericWhere(call.windows[1], OfYear))
          IN  /\ n = 0 => call.result.statistics = NoStatistics
              /\ n > 0 =>
                    /\ call.result.statistics.status = "returned"
                    /\ call.result.statistics.count = n
                    /\ call.result.statistics.sum =
                          SumFrom(Zero, NumericValuesWhere(call.windows[1], OfYear))
              /\ \A i \in 1..Len(call.result.byTargetGroup) :
                    LET group == call.result.byTargetGroup[i][1]
                        OfGroup(obs) == /\ obs.targetGroup = group
                                        /\ obs.sampleYear = call.args.year
                    IN  call.result.byTargetGroup[i][2].count =
                            Cardinality(NumericWhere(call.windows[2], OfGroup))
    /\ call.pc = "failed" => call.response \in ErrorResponses \cup {NoResponse}

\* C17 witness: the aggregation of a window in which one observation of
\* skolbibliotek has no numeric value counts the five others of the group.
C17_Witness ==
    /\ ReturnedFrom("aggregateByTargetGroup")
    /\ \E j \in 1..Len(call.windows[1]) :
          /\ call.windows[1][j].value = Null
          /\ call.windows[1][j].targetGroup = "skolbibliotek"
    /\ \E i \in 1..Len(call.result) :
          /\ call.result[i][1] = "skolbibliotek"
          /\ call.result[i][2].count = 5

\* the entry of topLibraries made of an observation
TopEntry(obs) ==
    [library |-> IF obs.library.kind = "object" /\ ~(obs.library.hasId /\ obs.library.id # <<>>)
                 THEN obs.library.name ELSE obs.library.id,
     value |-> obs.value.num]

\* the place of the p-th observation of obs in the order by value
\* descending in which equal values keep their fetch order
RankIn(obs, p) ==
    1 + Cardinality({q \in 1..Len(obs) : FLt(obs[p].value.num, obs[q].value.num)})
      + Cardinality({q \in 1..(p - 1) : obs[q].value.num = obs[p].value.num})

\* C18: topLibraries of generateTermReport holds the min(10, k)
\* highest-valued of the k numeric observations of the requested year, by
\* value descending, observations of equal value in fetch order.
C18_TopLibraries ==
    ReturnedFrom("generateTermReport") =>
        LET Keep(obs) == obs.sampleYear = call.args.year /\ obs.value.kind = "number"
            numeric == SelectSeq(call.windows[1], Keep)
            top == call.result.topLibraries
        IN  /\ Len(top) = Min2(10, Len(numeric))
            /\ \A p \in 1..Len(numeric) :
                  RankIn(numeric, p) <= 10 => top[RankIn(numeric, p)] = TopEntry(numeric[p])

\* C18 witness: of eleven numeric observations the report lists ten; the
\* three of value 4 lead in fetch order, and of the three of value 1 the
\* two fetched first close the list.
C18_Witness ==
    /\ ReturnedFrom("generateTermReport")
    /\ Len(call.result.topLibraries) = 10
    /\ call.result.statistics.count = 11
    /\ [i \in 1..3 |-> call.result.topLibraries[i].library] =
          <<<<"K", "3">>, <<"K", "7">>, <<"K", "1", "1">>>>
    /\ call.result.topLibraries[9] = [library |-> <<"K", "4">>, value |-> FromInt(1)]
    /\ call.result.topLibraries[10] = [library |-> <<"K", "8">>, value |-> FromInt(1)]

(***************************************************************************)
(* Claims about the category operations (TermSpec).                        *)
(***************************************************************************)
\* the call has been answered with the result of the operation
Answered(c, op) ==
    /\ calls[c].pc = "done"
    /\ calls[c].op.op = op
    /\ calls[c].outcome = TextResult

\* the category of an identifier: its longest prefix made of letters only
CategoryOf(id) ==
    LET n == CHOOSE k \in 0..Len(id) :
                 /\ \A j \in 1..k : IsLetter(id[j])
                 /\ k < Len(id) => ~IsLetter(id[k + 1])
    IN  SubSeq(id, 1, n)

\* a comes before b in the order of the letters, position by position, a
\* word before its extensions, an upper-case letter before the lower-case ones
Precedes(a, b) ==
    \E k \in 1..(Len(b)) :
        /\ k <= Len(a) + 1
        /\ SubSeq(a, 1, k - 1) = SubSeq(b, 1, k - 1)
        /\ k = Len(a) + 1 \/ CharCode(a[k]) < CharCode(b[k])

MatchesPrefix(id, prefix) ==
    /\ Len(prefix) <= Len(id)
    /\ \A k \in 1..Len(prefix) : LowerChar(id[k]) = LowerChar(prefix[k])

\* C20: searchTermsByCategory(prefix) returns exactly the loaded terms whose
\* identifier starts with prefix when case is disregarded ("besok" matches
\* "Besok12"), in the order of the dictionary.
C20_CategorySearch ==
    \A c \in CallIds :
        Answered(c, "searchTermsByCategory") =>
            LET terms == calls[c].terms
                result == calls[c].result
                matching == {j \in 1..Len(terms) :
                                MatchesPrefix(terms[j].id, calls[c].op.arg)}
                Nth(i) == CHOOSE j \in matching :
                              Cardinality({q \in matching : q < j}) = i - 1
            IN  /\ Len(result) = Cardinality(matching)
                /\ \A i \in 1..Len(result) : result[i] = terms[Nth(i)]

\* C20 witness: the search for "besok" in a dictionary that holds Besok12,
\* Beso1 and besok3 among others.
C20_Witness ==
    \E c \in CallIds :
        /\ Answered(c, "searchTermsByCategory")
        /\ calls[c].op.arg = <<"b", "e", "s", "o", "k">>
        /\ calls[c].terms = MixedTerms
        /\ calls[c].result = <<Besok12, besok3>>

(***************************************************************************)
(* Claims about the CSV export (Spec).                                     *)
(***************************************************************************)
\* the parts of a text between the occurrences of a separator; the part
\* after the last separator is left out when it is empty
RECURSIVE Split(_, _)
Split(text, sep) ==
    IF text = <<>> THEN <<>>
    ELSE LET i == CHOOSE i \in 1..(Len(text) + 1) :
                      /\ i = Len(text) + 1 \/ text[i] = sep
                      /\ \A j \in 1..(i - 1) : text[j] # sep
         IN  <<SubSeq(text, 1, i - 1)>> \o Split(SubSeq(text, i + 1, Len(text)), sep)

\* the observations the export_to_csv call exports: those fetched, of the
\* year asked for when one is given
Exported ==
    LET OfYear(o) == call.args.year = 0 \/ o.sampleYear = call.args.year
    IN  SelectSeq(call.windows[1], OfYear)

C22_ExportWithoutTerm ==
    (call.op = "exportToCSV" /\ call.args.term = <<>>) =>
        /\ call.pc # "rejected"
        /\ call.outcome.code # "InvalidParams"

(***************************************************************************)
(* Claims about the term cache as shared state (TermSpec).                 *)
(***************************************************************************)
\* the calls whose suspended load completes in this step
Completing == {c \in CallIds : calls[c].pc = "reading" /\ calls'[c].pc = "done"}

\* C23: a tool invocation changes no state of the process but the term
\* cache: the cache changes only where a load assigns it what it read, a
\* call answered from the cache (searchTermsByCategory, searchTermsByKeyword,
\* getTermDetails, getTermCategories, listTermCategories) leaves the cached
\* sequence as it was, and a finished call leaves nothing behind.
C23_OnlyTheCacheChanges ==
    [][/\ IF Completing = {}
          THEN termsCache' = termsCache
          ELSE termsCache' = Cached(IF termsFile.state = "json"
                                    THEN termsFile.terms ELSE <<>>)
       /\ \A c \in CallIds : calls'[c].pc = "idle" => calls'[c] = IdleCall
       /\ UNCHANGED <<upstream, call, values, statistics>>]_vars

\* C23 witness: a category search and listTermCategories have both been
\* answered, one of them from the cache (the file was read once); the
\* search returned a part of the dictionary and the cache holds all of it.
C23_Witness ==
    /\ readCount = 1
    /\ cacheWrites = 1
    /\ \A c \in CallIds : calls[c].pc = "done" /\ calls[c].outcome = TextResult
    /\ {calls[c].op.op : c \in CallIds} = {"searchTermsByCategory", "listTermCategories"}
    /\ termsCache = Cached(MixedTerms)
    /\ \E c \in CallIds : calls[c].result = <<Besok12, besok3>>

\* the call returns from loadTermsFromFile in this step
Returns(c) ==
    /\ calls[c].pc # "done"
    /\ calls'[c].pc = "done"
    /\ calls'[c].outcome = TextResult

\* C24: once a call has returned terms read from the file, every call that
\* returns after it returns the same term sequence, however the concurrent
\* loads interleave and whichever of their file reads succeed or fail.
C24_LaterCallsReturnSameTerms ==
    [][\A d \in CallIds :
          (calls[d].pc = "done" /\ calls[d].terms # <<>>) =>
              \A c \in CallIds \ {d} :
                  Returns(c) => calls'[c].terms = calls[d].terms]_vars

\* C25: once a load has failed (the file could not be read), the empty
\* result is cached for good: no call reads the file again, every call
\* entered from then on returns the empty sequence at once, and the cached
\* dictionary stays empty, also after the file has become readable.
C25_FailedLoadStaysEmpty ==
    [][(cacheWrites > 0 /\ ~readSucceeded) =>
          /\ readCount' = readCount
          /\ termsCache' = Cached(<<>>)
          /\ \A c \in CallIds :
                Enters(c) => /\ calls'[c].pc = "done"
                             /\ calls'[c].terms = <<>>]_vars

(***************************************************************************)
(* Claims about the report, the trend and the comparisons (Spec).          *)
(***************************************************************************)
RECURSIVE GroupCountSum(_)
GroupCountSum(byTargetGroup) ==
    IF byTargetGroup = <<>> THEN 0
    ELSE Head(byTargetGroup)[2].count + GroupCountSum(Tail(byTargetGroup))

\* C26: in every report the breakdown by target group and the statistics
\* describe the same observations: the counts of the groups add up to at
\* most statistics.count, and to 0 when statistics is null, also when the
\* upstream data changes between the two fetches of the report.
C26_BreakdownWithinStatistics ==
    ReturnedFrom("generateTermReport") =>
        IF call.result.statistics = NoStatistics
        THEN GroupCountSum(call.result.byTargetGroup) = 0
        ELSE GroupCountSum(call.result.byTargetGroup) <= call.result.statistics.count

\* C27: the years of a trend are in strictly ascending numeric order and
\* statistics[i] is the entry of years[i], for all sample years, those of
\* different numbers of digits included.
C27_TrendYearsAscending ==
    ReturnedFrom("getTermTrend") =>
        /\ \A i \in 1..(Len(call.result.years) - 1) :
              call.result.years[i] < call.result.years[i + 1]
        /\ Len(call.result.statistics) = Len(call.result.years)
        /\ \A i \in 1..Len(call.result.years) :
              call.result.statistics[i].year = call.result.years[i]

\* the observations compareLibraryYears compares for one year: those of the
\* fetched window that belong to the library and the year
OfLibraryAndYear(window, year) ==
    LET Keep(o) == /\ HasLibraryIdentifier(o)
                   /\ IsSubstring(call.args.libraryId, o.library.id)
                   /\ o.sampleYear = year
    IN  SelectSeq(window, Keep)

TermsIn(observations) ==
    {observations[i].term : i \in 1..Len(observations)} \ {<<>>}

\* the value of the last observation of the term
LastValueOf(observations, term) ==
    LET last == CHOOSE i \in 1..Len(observations) :
                    /\ observations[i].term = term
                    /\ \A j \in (i + 1)..Len(observations) : observations[j].term # term
    IN  observations[last].value

\* C28: the comparison of compareLibraryYears has exactly one entry per term
\* identifier that occurs in the library's observations of year1 or of
\* year2; the value of a year is that of the last observation of the term
\* in fetch order; a term of only one of the years has the other value
\* undefined and no change.
C28_OneEntryPerTerm ==
    ReturnedFrom("compareLibraryYears") =>
        LET year1Data == OfLibraryAndYear(call.windows[1], call.args.year)
            year2Data == OfLibraryAndYear(call.windows[2], call.args.year2)
            comparison == call.result.comparison
        IN  /\ {comparison[i].term : i \in 1..Len(comparison)}
                  = TermsIn(year1Data) \cup TermsIn(year2Data)
            /\ \A i, j \in 1..Len(comparison) :
                  comparison[i].term = comparison[j].term => i = j
            /\ \A i \in 1..Len(comparison) :
                  LET item == comparison[i]
                  IN  /\ item.year1Value =
                            IF item.term \in TermsIn(year1Data)
                            THEN LastValueOf(year1Data, item.term) ELSE Undefined
                      /\ item.year2Value =
                            IF item.term \in TermsIn(year2Data)
                            THEN LastValueOf(year2Data, item.term) ELSE Undefined
                      /\ item.term \notin TermsIn(year1Data) \cap TermsIn(year2Data)
                            => item.change = Undefined /\ item.percentChange = Undefined

\* C28 witness: the library has four observations of one term in year1,
\* the first and the last with different values, and none in year2: the one
\* entry carries the last value, no second value and no change.
C28_Witness ==
    /\ ReturnedFrom("compareLibraryYears")
    /\ Len(OfLibraryAndYear(call.windows[1], call.args.year)) = 4
    /\ OfLibraryAndYear(call.windows[2], call.args.year2) = <<>>
    /\ Len(call.result.comparison) = 1
    /\ call.result.comparison[1].year1Value = Num(FromInt(1))
    /\ OfLibraryAndYear(call.windows[1], call.args.year)[1].value = Num(FromInt(2))
    /\ call.result.comparison[1].year2Value = Undefined
    /\ call.result.comparison[1].change = Undefined

\* the observations of the k-th fetched window that match the k-th library
\* (by its identifier), the term and the year of compareMultipleLibraries
MatchesOfLibrary(k) ==
    LET Keep(o) == /\ HasLibraryIdentifier(o)
                   /\ IsSubstring(call.args.elements[k], o.library.id)
                   /\ o.sampleYear = call.args.year
                   /\ o.term = call.args.term
    IN  SelectSeq(call.windows[k], Keep)

\* compareMultipleLibraries returns one result per element of libraryIds,
\* in input order, duplicates kept
OneResultPerLibrary ==
    /\ Len(call.result) = Len(call.args.elements)
    /\ \A k \in 1..Len(call.result) : call.result[k].libraryId = call.args.elements[k]

\* C29 as stated: one result per library, and a result's value is null
\* exactly when no fetched observation matches the library, the term and
\* the year; otherwise it is the value of the first matching observation.
C29_NullExactlyWhenNoMatch ==
    ReturnedFrom("compareMultipleLibraries") =>
        /\ OneResultPerLibrary
        /\ \A k \in 1..Len(call.result) :
              /\ call.result[k].value = Null <=> MatchesOfLibrary(k) = <<>>
              /\ MatchesOfLibrary(k) # <<>> =>
                    call.result[k].value = MatchesOfLibrary(k)[1].value

\* C29, amended: one result per library, in input order, duplicates kept;
\* the value is null when no fetched observation matches, and otherwise it
\* is the value of the first matching observation in fetch order, which
\* can itself be null.
C29_FirstMatchOrNull ==
    ReturnedFrom("compareMultipleLibraries") =>
        /\ OneResultPerLibrary
        /\ \A k \in 1..Len(call.result) :
              IF MatchesOfLibrary(k) = <<>>
              THEN call.result[k].value = Null /\ call.result[k].observation = <<>>
              ELSE /\ call.result[k].value = MatchesOfLibrary(k)[1].value
                   /\ call.result[k].observation = <<MatchesOfLibrary(k)[1]>>

\* C29 witness: two libraries were compared; the first has four matching
\* observations and is reported with the value of the first of them, the
\* second has one matching observation, whose value is null.
C29_Witness ==
    /\ ReturnedFrom("compareMultipleLibraries")
    /\ call.args.elements = <<K1, Mal>>
    /\ Len(MatchesOfLibrary(1)) = 4
    /\ call.result[1].value = Num(FromInt(2))
    /\ MatchesOfLibrary(2) = <<ObsNull>>
    /\ call.result[2].value = Null
    /\ call.result[2].observation = <<ObsNull>>

=============================================================================
